---- MODULE Spec2Model ----
(***************************************************************************)
(* A model of four engines of the pda-algorithms repository:               *)
(*   - the slicing-tree floorplanner   (src/floorplan/src/tree.cc),        *)
(*   - the FM partitioner              (src/partition/src/fm_partitioner.cc)*)
(*   - the channel router              (src/routing/src/router.cc),        *)
(*   - the transistor path finder      (src/euler_path/src/path_finder.cc).*)
(* The engines share no state.  Each has its own specification            *)
(* (SpecFloorplan, SpecAnnealing, SpecPartition, SpecRouter,               *)
(* SpecPathFinder) over its own variables; the variables of the other      *)
(* engines stay at their initial value.                                    *)
(*                                                                         *)
(* Indices into vectors are the 0-based indices of the C++ code; At(s, i)  *)
(* reads the element the code reads with s.at(i).  Pointers are node or    *)
(* cell numbers and Nil (0) is the null pointer.                           *)
(***************************************************************************)
EXTENDS Integers, Sequences, FiniteSets, TLC

VARIABLES
  \* ---- floorplanner (class SlicingTree) ----
  fpPc,                 \* "new" before the constructor ran, "ready" after,
                        \* "placed" after the blocks got their coordinates
  blocks_,              \* the blocks of the input, by block number
  polish_expr_,         \* vector<BlockOrCutWithTreeNodePtr>
  nodes,                \* the heap of TreeNode objects, by node number
  root_,                \* the root node
  cut_and_block_pair_,  \* vector<size_t>: indices of cuts followed by a block
  prev_move_,           \* optional<MoveRecord_>
  fpBefore,             \* history: the floorplan right before the last Perturb
  fpLast,               \* history: the last public operation that ran
  bottom_left,          \* Block::bottom_left of the block of each node
  \* ---- floorplanner (SimulateAnnealing) ----
  anPc,                 \* where SimulateAnnealing stands: "idle", "search",
                        \* "moves", "judge", "rebuild", "done", "abort"
  constraint,           \* Input::AspectRatio: lower_bound and upper_bound
  cooling_factor,       \* <<numerator, denominator>>
  temp,                 \* <<numerator, denominator>>
  min_area,
  snapshot,             \* vector<BlockOrCut>
  moves,
  rejected_moves,
  uphills,
  area_before_perturbation, \* local of the loop body; 0 outside of it
  anJudged,             \* history: how the last perturbation was judged
  \* ---- partitioner (class FmPartitioner) ----
  fmPc,                 \* where Partition() stands: "new", "loaded", "pass",
                        \* "ready" (InitPartition_ ran), "between" (a pass
                        \* ended, the next not begun), "done"
  netlist,              \* the parsed input: nets of each cell, cells of each net
  balance_factor_,      \* <<numerator, denominator>> of the balance factor
  cell_arr_,            \* per cell: block_tag, is_locked_, gain, prev, next
  distribution,         \* per net: <<cells in A, cells in B>>
  block_size,           \* size_ of a_ ("A") and of b_ ("B"), a size_t
  bucket_,              \* bucket_a_ ("A") and bucket_b_ ("B")
  history_,             \* vector<Record_>
  fmTagsBefore,         \* history: the block tags when the pass began
  fmPassGain,           \* history: max_gain_idx of the pass that just ended
  fmPasses,             \* history: the number of passes begun
  \* ---- router (class Router) ----
  rtPc,                 \* where Route() stands: "new", "loaded", "top",
                        \* "bottom", "tracks", "done", "abort"
  instance_,            \* Instance: pins and boundaries
  number_of_nets_,
  horizontal_constraint_graph_,
  vertical_constraint_graph_,
  inverted_vertical_constraint_graph_,
  routed_nets_,
  number_of_routed_nets_,
  top_tracks,           \* the three vectors of tracks Route() returns
  bottom_tracks,
  tracks,
  rectilinear_boundaries, \* local of RouteInBoundaries_: the merged list
  dist,                 \* local of RouteInBoundaries_: the loop variable
  rtEmptySweep,         \* history: a sweep of RouteInTracks_ placed no net
  rtResults,            \* history: the Results the calls of Route() returned
  \* ---- path finder (class PathFinder) ----
  pfPc,                 \* where FindPath() stands: "new", "loaded",
                        \* "grouped", "paths", "done", "abort"
  circuit_,             \* Circuit::mos: type, drain, gate, source of each MOS
  vertices_,            \* vector<Vertex>, a Vertex is <<PMOS, NMOS>>
  adjacency_list_,      \* map<Vertex, Neighbors>
  to_visit,             \* local of FindHamiltonPaths_: set<Vertex>
  path,                 \* local of FindHamiltonPaths_: the path being grown,
                        \* <<>> between two paths
  paths,                \* local of FindHamiltonPaths_: the paths found
  joined,               \* the path FindPath() returns
  hamilton_path,        \* HamiltonPath: the vertices of a path, in order
  edges,                \* what GetEdgesOf returned
  net_order,            \* local of CalculateHpwl_
  hpwl                  \* what CalculateHpwl_ returned

fpVars == <<fpPc, blocks_, polish_expr_, nodes, root_, cut_and_block_pair_, prev_move_,
            fpBefore, fpLast, bottom_left>>

anVars == <<anPc, constraint, cooling_factor, temp, min_area, snapshot, moves,
            rejected_moves, uphills, area_before_perturbation, anJudged>>

fmVars == <<fmPc, netlist, balance_factor_, cell_arr_, distribution,
            block_size, bucket_, history_, fmTagsBefore, fmPassGain,
            fmPasses>>

rtVars == <<rtPc, instance_, number_of_nets_, horizontal_constraint_graph_,
            vertical_constraint_graph_, inverted_vertical_constraint_graph_,
            routed_nets_, number_of_routed_nets_, top_tracks, bottom_tracks,
            tracks, rectilinear_boundaries, dist, rtEmptySweep, rtResults>>

hpVars == <<hamilton_path, edges, net_order, hpwl>>

pfVars == <<pfPc, circuit_, vertices_, adjacency_list_, to_visit, path, paths,
            joined, hpVars>>

Nil == 0

At(s, i) == s[i + 1]

Max(a, b) == IF a >= b THEN a ELSE b

Min(a, b) == IF a <= b THEN a ELSE b

Range(s) == {s[i] : i \in 1..Len(s)}

\* The sequence s without its element at (0-based) index i: vector::erase.
Erase(s, i) == [k \in 1..(Len(s) - 1) |-> IF k <= i THEN s[k] ELSE s[k + 1]]

\* A swap that loses one of the two elements: the element at j is copied
\* over the element at i and the element at i is not written back.
SwapAtCopies(s, i, j) == [s EXCEPT ![i + 1] = s[j + 1]]

\* The sequence s with the elements at (0-based) indices i and j exchanged.
SwapAt(s, i, j) ==
  [k \in 1..Len(s) |-> IF k = i + 1 THEN s[j + 1]
                       ELSE IF k = j + 1 THEN s[i + 1] ELSE s[k]]

\* Op applied to the value of v, v computed once.
Once(v, Op(_)) == CHOOSE r \in {Op(x) : x \in {v}} : TRUE

\* The (0-based) index of the first element equal to x, Len(s) if none:
\* std::find returning end().
Find(s, x) ==
  IF \E k \in 1..Len(s) : s[k] = x
  THEN (CHOOSE k \in 1..Len(s) : s[k] = x /\ \A j \in 1..(k - 1) : s[j] # x) - 1
  ELSE Len(s)

(***************************************************************************)
(*                          F L O O R P L A N N E R                        *)
(***************************************************************************)

\* Largest number of blocks of an input (the constructor asserts more
\* than one).
NumBlocks == 4

Blocks == 1..NumBlocks

\* Width and height of block b of the large input: all different, so that
\* a stale composite size shows.
BlockWidth(b) == 2 * b + 1

BlockHeight(b) == (NumBlocks - b) * 3 + 2

\* The input the parser hands to the constructor: NumBlocks blocks of
\* different sizes.
Inputs ==
  {[b \in Blocks |-> [width |-> BlockWidth(b), height |-> BlockHeight(b)]]}

\* The inputs of two blocks, each 10 x 20 or 20 x 10; b1 (10 x 20) with
\* b2 (20 x 10) is one of them.
ScenarioBlocks ==
  <<[width |-> 10, height |-> 20], [width |-> 20, height |-> 10]>>

TwoBlockInputs ==
  {<<a, b>> : a \in {ScenarioBlocks[1], ScenarioBlocks[2]},
              b \in {ScenarioBlocks[1], ScenarioBlocks[2]}}

kH == "H"

kV == "V"

Cuts == {kH, kV}

kBlockSwap == "kBlockSwap"

kChainInvert == "kChainInvert"

kBlockAndCutSwap == "kBlockAndCutSwap"

NoMove == [kind_of_move |-> "none", first |-> 0, second |-> 0]

\* A polish expression entry: a block (block # 0) or a cut (cut # "-"),
\* with the pointer to its tree node.
BlockEntry(b, n) == [block |-> b, cut |-> "-", node |-> n]

CutEntry(c, n) == [block |-> 0, cut |-> c, node |-> n]

IsBlock(e) == e.block # 0

IsCut(e) == e.cut # "-"

Invert(c) == IF c = kH THEN kV ELSE kH

\* A tree node.  cut_ is "-" for a BlockNode.
BlockNode(b) ==
  [parent |-> Nil, left |-> Nil, right |-> Nil, cut_ |-> "-",
   width |-> blocks_[b].width, height |-> blocks_[b].height]

NodeIds == 1..(2 * NumBlocks - 1)

\* UpdateSize with the width of a horizontal cut taken as the sum of the
\* widths.
UpdateSizeSumsWidths(T, c) ==
  LET l == T[T[c].left]
      r == T[T[c].right]
      w == l.width + r.width
      h == IF T[c].cut_ = kV THEN Max(l.height, r.height)
                             ELSE l.height + r.height
  IN  [T EXCEPT ![c].width = w, ![c].height = h]

\* CutNode::UpdateSize on node c of heap T (tree.cc calls it Update).
UpdateSize(T, c) ==
  LET l == T[T[c].left]
      r == T[T[c].right]
      w == IF T[c].cut_ = kH THEN Max(l.width, r.width) ELSE l.width + r.width
      h == IF T[c].cut_ = kV THEN Max(l.height, r.height)
                             ELSE l.height + r.height
  IN  [T EXCEPT ![c].width = w, ![c].height = h]

\* for (p = c; p; p = p->parent.lock()) p->Update();
\* The updated heap T1 is bound by a set, so that it is computed once.
RECURSIVE UpdateUpToRoot(_, _)
UpdateUpToRoot(T, c) ==
  IF c = Nil THEN T ELSE
    CHOOSE R \in {UpdateUpToRoot(T1, T1[c].parent) :
                    T1 \in {UpdateSize(T, c)}} : TRUE

\* CutNode::InvertCut: only the size of this node is updated.
NodeInvertCut(T, c) ==
  UpdateSize([T EXCEPT ![c].cut_ = Invert(T[c].cut_)], c)

\* SlicingTree::InitFloorplanPolishExpr_ with the coin flips cuts[1..n-1];
\* the node pointers are still null.
InitFloorplanPolishExpr_(cuts) ==
  [expr |-> [k \in 1..(2 * Len(cuts) + 1) |->
               IF k = 1 THEN BlockEntry(1, Nil)
               ELSE IF k % 2 = 0 THEN BlockEntry(k \div 2 + 1, Nil)
               ELSE CutEntry(cuts[k \div 2], Nil)],
   pairs |-> [i \in 1..(Len(cuts) - 1) |-> i * 2]]

\* SlicingTree::BuildTreeFromPolishExpr_: the stack-based pass, started at
\* entry k (1-based) with the given stack, heap and next free cut node.
RECURSIVE BuildFrom(_, _, _, _, _)
BuildFrom(expr, k, stack, T, free) ==
  IF k > Len(expr) THEN [expr |-> expr, nodes |-> T, root |-> stack[Len(stack)]]
  ELSE IF IsBlock(expr[k]) THEN
    LET leaf == expr[k].block
    IN  BuildFrom([expr EXCEPT ![k].node = leaf], k + 1, Append(stack, leaf),
                  [T EXCEPT ![leaf] = BlockNode(leaf)], free)
  ELSE
    LET right == stack[Len(stack)]
        left  == stack[Len(stack) - 1]
        rest  == SubSeq(stack, 1, Len(stack) - 2)
        inode == free
        T1 == [T EXCEPT ![inode] = [parent |-> Nil, left |-> left,
                                    right |-> right, cut_ |-> expr[k].cut,
                                    width |-> 0, height |-> 0]]
        T2 == UpdateSize(T1, inode)
        T3 == [T2 EXCEPT ![right].parent = inode, ![left].parent = inode]
    IN  BuildFrom([expr EXCEPT ![k].node = inode], k + 1, Append(rest, inode),
                  T3, free + 1)

EmptyHeap ==
  [n \in NodeIds |-> [parent |-> Nil, left |-> Nil, right |-> Nil,
                      cut_ |-> "-", width |-> 0, height |-> 0]]

BuildTreeFromPolishExpr_(expr) ==
  BuildFrom(expr, 1, <<>>, EmptyHeap, Len(blocks_) + 1)

\* SlicingTree::SwapBlockNode_(a, b) on heap T.
SwapBlockNode_(T, a, b) ==
  LET a_parent == T[a].parent
      b_parent == T[b].parent
      T1 == IF T[a_parent].left = a THEN [T EXCEPT ![a_parent].left = b]
                                    ELSE [T EXCEPT ![a_parent].right = b]
      T2 == [T1 EXCEPT ![b].parent = a_parent]
      T3 == IF T2[b_parent].left = b THEN [T2 EXCEPT ![b_parent].left = a]
                                     ELSE [T2 EXCEPT ![b_parent].right = a]
      T4 == [T3 EXCEPT ![a].parent = b_parent]
      T5 == UpdateUpToRoot(T4, T4[a].parent)
  IN  UpdateUpToRoot(T5, T5[b].parent)

\* SwapBlockNodeWithCutNode_ without the case of a block that is the
\* left-most leaf of the right sibling of the cut: the cut always becomes
\* the right child of the parent of the block.
SwapBlockNodeWithCutNodeAsSibling(T, block, cut) ==
  LET parent == T[cut].parent
      parent_of_block == T[block].parent
      T1 == [T EXCEPT ![parent].left = T[cut].left]
      T2 == [T1 EXCEPT ![T1[cut].left].parent = parent]
      T3 == [T2 EXCEPT ![cut].left = T2[cut].right]
      T4 == [T3 EXCEPT ![cut].right = block]
      T5 == [T4 EXCEPT ![block].parent = cut]
      T6 == [T5 EXCEPT ![parent_of_block].right = cut]
      T7 == [T6 EXCEPT ![cut].parent = parent_of_block]
  IN  UpdateUpToRoot(T7, cut)

\* SlicingTree::SwapBlockNodeWithCutNode_(block, cut) on heap T.
SwapBlockNodeWithCutNode_(T, block, cut) ==
  LET parent == T[cut].parent
      parent_of_block == T[block].parent
      T1 == [T EXCEPT ![parent].left = T[cut].left]
      T2 == [T1 EXCEPT ![T1[cut].left].parent = parent]
      T3 == [T2 EXCEPT ![cut].left = T2[cut].right]
      T4 == [T3 EXCEPT ![cut].right = block]
      T5 == [T4 EXCEPT ![block].parent = cut]
      T6 == IF parent_of_block = parent
            THEN [T5 EXCEPT ![parent_of_block].right = cut]
            ELSE [T5 EXCEPT ![parent_of_block].left = cut]
      T7 == [T6 EXCEPT ![cut].parent = parent_of_block]
  IN  UpdateUpToRoot(T7, cut)

\* while (root_of_subtree != root_of_subtree->parent->right) go up.
RECURSIVE RootOfSubtree(_, _)
RootOfSubtree(T, n) ==
  IF T[n].parent = Nil \/ T[T[n].parent].right = n THEN n
  ELSE RootOfSubtree(T, T[n].parent)

\* SlicingTree::ReverseBlockNodeWithCutNode_(block, cut) on heap T.
ReverseBlockNodeWithCutNode_(T, block, cut) ==
  LET parent == T[cut].parent
      root_of_subtree == RootOfSubtree(T, cut)
      T1 == IF T[parent].right = cut THEN [T EXCEPT ![parent].right = block]
                                     ELSE [T EXCEPT ![parent].left = block]
      T2 == [T1 EXCEPT ![block].parent = parent]
      T3 == [T2 EXCEPT ![cut].right = T2[cut].left]
      parent_of_subtree == T3[root_of_subtree].parent
      T4 == [T3 EXCEPT ![cut].left = T3[parent_of_subtree].left]
      T5 == [T4 EXCEPT ![T4[cut].left].parent = cut]
      T6 == [T5 EXCEPT ![parent_of_subtree].left = cut]
      T7 == [T6 EXCEPT ![cut].parent = parent_of_subtree]
      T8 == UpdateSize(T7, cut)
  IN  UpdateUpToRoot(T8, T8[block].parent)

\* UpdatePairsFormedByNeighbors_ that leaves the selected pair in the
\* index.
UpdatePairsKeepingSelected(pairs, expr, cut, index_of_pair) ==
  LET block == cut - 1
      p2 == IF block > 0 /\ IsCut(At(expr, block - 1))
            THEN Append(pairs, block - 1) ELSE pairs
  IN  IF cut < Len(expr) - 1 /\ IsBlock(At(expr, cut + 1))
      THEN Append(p2, cut) ELSE p2

\* SlicingTree::UpdatePairsFormedByNeighbors_(cut, index_of_pair), called
\* after the swap: expr is the expression after it.
UpdatePairsFormedByNeighbors_(pairs, expr, cut, index_of_pair) ==
  LET block == cut - 1
      p1 == Erase(pairs, index_of_pair)
      p2 == IF block > 0 /\ IsCut(At(expr, block - 1))
            THEN Append(p1, block - 1) ELSE p1
  IN  IF cut < Len(expr) - 1 /\ IsBlock(At(expr, cut + 1))
      THEN Append(p2, cut) ELSE p2

\* SlicingTree::RestoredPairsFormedByNeighbors_(cut), called after the
\* reverse swap: expr is the expression after it.
RestoredPairsFormedByNeighbors_(pairs, expr, cut) ==
  LET block == cut + 1
      p1 == IF IsBlock(At(expr, block + 1))
            THEN Erase(pairs, Find(pairs, block)) ELSE pairs
      p2 == IF IsCut(At(expr, cut - 1))
            THEN Erase(p1, Find(p1, cut - 1)) ELSE p1
  IN  Append(p2, cut)

\* BlockOrCutWithTreeNodePtr::InvertCut on the entries li .. ui-1, in order.
RECURSIVE InvertChain(_, _, _, _)
InvertChain(expr, T, i, ui) ==
  IF i >= ui THEN [expr |-> expr, nodes |-> T]
  ELSE InvertChain([expr EXCEPT ![i + 1].cut = Invert(expr[i + 1].cut)],
                   NodeInvertCut(T, expr[i + 1].node), i + 1, ui)

\* The lower end of the chain of cuts around index i.
RECURSIVE ChainLow(_, _)
ChainLow(expr, li) ==
  IF li > 0 /\ IsCut(At(expr, li - 1)) THEN ChainLow(expr, li - 1) ELSE li

\* The upper end (exclusive) of the chain of cuts.
RECURSIVE ChainHigh(_, _)
ChainHigh(expr, ui) ==
  IF ui < Len(expr) /\ IsCut(At(expr, ui)) THEN ChainHigh(expr, ui + 1) ELSE ui

\* What C1 compares: the expression, the tree and the adjacency index as
\* a set of positions.
FloorplanView ==
  [expr |-> polish_expr_, nodes |-> nodes, root |-> root_,
   pairs |-> Range(cut_and_block_pair_)]

FpInit ==
  /\ fpPc = "new"
  /\ blocks_ = <<>>
  /\ polish_expr_ = <<>>
  /\ nodes = EmptyHeap
  /\ root_ = Nil
  /\ cut_and_block_pair_ = <<>>
  /\ prev_move_ = NoMove
  /\ fpBefore = [expr |-> <<>>, nodes |-> EmptyHeap, root |-> Nil, pairs |-> {}]
  /\ fpLast = "none"
  /\ bottom_left = [n \in NodeIds |-> <<0, 0>>]

\* SlicingTree::SlicingTree, on one of the given inputs.
ConstructFrom(inputs) ==
  /\ fpPc = "new"
  /\ \E blocks \in inputs :
       /\ blocks_' = blocks
       /\ \E cuts \in [1..(Len(blocks) - 1) -> Cuts] :
            LET init == InitFloorplanPolishExpr_(cuts)
            IN  /\ \E built \in {BuildTreeFromPolishExpr_(init.expr)'} :
                     /\ polish_expr_' = built.expr
                     /\ nodes' = built.nodes
                     /\ root_' = built.root
                /\ cut_and_block_pair_' = init.pairs
  /\ fpPc' = "ready"
  /\ fpLast' = "construct"
  /\ bottom_left' = bottom_left
  /\ UNCHANGED <<prev_move_, fpBefore>>

Construct == ConstructFrom(Inputs)

ConstructTwoBlocks == ConstructFrom(TwoBlockInputs)

\* A walk that puts the right child of every cut to the right of the left
\* child.
RECURSIVE UpdateCoordinateBesideLeft(_, _, _)
UpdateCoordinateBesideLeft(pl, n, pt) ==
  IF pl.nodes[n].cut_ = "-" THEN [pl EXCEPT !.bottom_left[n] = pt]
  ELSE
    LET l == pl.nodes[n].left
        r == pl.nodes[n].right
    IN  Once(UpdateCoordinateBesideLeft(pl, l, pt), LAMBDA p1 :
          Once(UpdateCoordinateBesideLeft(p1, r,
                 <<p1.bottom_left[l][1] + p1.nodes[l].width,
                   p1.bottom_left[l][2]>>),
               LAMBDA p2 :
                 [nodes |-> UpdateSize(p2.nodes, n),
                  bottom_left |->
                    [p2.bottom_left EXCEPT ![n] = p2.bottom_left[l]]]))

\* TreeNode::UpdateCoordinate(bottom_left) on node n of the placement pl,
\* the heap of nodes with the bottom-left points: a block takes the point;
\* a cut hands it to its left child, puts the right child on top of the
\* left one (H) or to the right of it (V), updates its size and takes the
\* point of the left child.
RECURSIVE UpdateCoordinate(_, _, _)
UpdateCoordinate(pl, n, pt) ==
  IF pl.nodes[n].cut_ = "-" THEN [pl EXCEPT !.bottom_left[n] = pt]
  ELSE
    LET l == pl.nodes[n].left
        r == pl.nodes[n].right
    IN  Once(UpdateCoordinate(pl, l, pt), LAMBDA p1 :
          Once(UpdateCoordinate(p1, r,
                 IF p1.nodes[n].cut_ = kH
                 THEN <<p1.bottom_left[l][1],
                        p1.bottom_left[l][2] + p1.nodes[l].height>>
                 ELSE <<p1.bottom_left[l][1] + p1.nodes[l].width,
                        p1.bottom_left[l][2]>>),
               LAMBDA p2 :
                 [nodes |-> UpdateSize(p2.nodes, n),
                  bottom_left |->
                    [p2.bottom_left EXCEPT ![n] = p2.bottom_left[l]]]))

\* The walk of SlicingTree::UpdateCoordinateOfBlocks over heap heap: the
\* root is placed at the origin.
UpdateCoordinateFromOrigin(heap, root) ==
  UpdateCoordinate([nodes |-> heap, bottom_left |-> bottom_left], root,
                   <<0, 0>>)

\* SlicingTree::UpdateCoordinateOfBlocks, the last call on the tree: the
\* blocks are read off after it.
UpdateCoordinateOfBlocks ==
  /\ fpPc = "ready"
  /\ \E placed \in {UpdateCoordinateFromOrigin(nodes, root_)} :
       /\ nodes' = placed.nodes
       /\ bottom_left' = placed.bottom_left
  /\ fpPc' = "placed"
  /\ fpLast' = "place"
  /\ UNCHANGED <<blocks_, polish_expr_, root_, cut_and_block_pair_,
                 prev_move_, fpBefore>>

\* SlicingTree::Perturb, case Move::kBlockSwap, with the block index the
\* selection loop ends on.
PerturbBlockSwap ==
  /\ fpPc = "ready"
  /\ \E block \in 0..(Len(polish_expr_) - 1) :
       /\ IsBlock(At(polish_expr_, block))
       /\ ~(block + 1 = Len(polish_expr_))
       /\ IsBlock(At(polish_expr_, block + 1))
       /\ LET expr == SwapAt(polish_expr_, block, block + 1)
          IN  /\ polish_expr_' = expr
              /\ nodes' = SwapBlockNode_(nodes, At(expr, block).node,
                                         At(expr, block + 1).node)
              /\ prev_move_' = [kind_of_move |-> kBlockSwap,
                                first |-> block, second |-> block + 1]
  /\ fpBefore' = FloorplanView
  /\ fpLast' = "perturb"
  /\ bottom_left' = bottom_left
  /\ UNCHANGED <<fpPc, blocks_, root_, cut_and_block_pair_>>

\* SlicingTree::Perturb, case Move::kChainInvert.
PerturbChainInvert ==
  /\ fpPc = "ready"
  /\ \E cut \in 0..(Len(polish_expr_) - 1) :
       /\ IsCut(At(polish_expr_, cut))
       /\ LET li == ChainLow(polish_expr_, cut)
              ui == ChainHigh(polish_expr_, cut + 1)
              r  == InvertChain(polish_expr_, nodes, li, ui)
          IN  /\ polish_expr_' = r.expr
              /\ nodes' = r.nodes
              /\ prev_move_' = [kind_of_move |-> kChainInvert,
                                first |-> li, second |-> ui]
  /\ fpBefore' = FloorplanView
  /\ fpLast' = "perturb"
  /\ bottom_left' = bottom_left
  /\ UNCHANGED <<fpPc, blocks_, root_, cut_and_block_pair_>>

\* SlicingTree::Perturb, case Move::kBlockAndCutSwap.
PerturbBlockAndCutSwap ==
  /\ fpPc = "ready"
  /\ cut_and_block_pair_ # <<>>
  /\ \E pair_idx \in 0..(Len(cut_and_block_pair_) - 1) :
       LET cut   == At(cut_and_block_pair_, pair_idx)
           block == cut + 1
           expr  == SwapAt(polish_expr_, block, cut)
       IN  /\ polish_expr_' = expr
           /\ nodes' = SwapBlockNodeWithCutNode_(nodes, At(expr, cut).node,
                                                 At(expr, block).node)
           /\ prev_move_' = [kind_of_move |-> kBlockAndCutSwap,
                             first |-> block, second |-> cut]
           /\ cut_and_block_pair_' =
                UpdatePairsFormedByNeighbors_(cut_and_block_pair_, expr,
                                              block, pair_idx)
  /\ fpBefore' = FloorplanView
  /\ fpLast' = "perturb"
  /\ bottom_left' = bottom_left
  /\ UNCHANGED <<fpPc, blocks_, root_>>

\* SlicingTree::Restore
Restore ==
  /\ fpPc = "ready"
  /\ prev_move_ # NoMove
  /\ \/ /\ prev_move_.kind_of_move = kBlockSwap
        /\ LET block_1 == prev_move_.first
               block_2 == prev_move_.second
               expr == SwapAt(polish_expr_, block_1, block_2)
           IN  /\ polish_expr_' = expr
               /\ nodes' = SwapBlockNode_(nodes, At(expr, block_1).node,
                                          At(expr, block_2).node)
        /\ UNCHANGED cut_and_block_pair_
     \/ /\ prev_move_.kind_of_move = kChainInvert
        /\ LET r == InvertChain(polish_expr_, nodes, prev_move_.first,
                                prev_move_.second)
           IN  /\ polish_expr_' = r.expr
               /\ nodes' = r.nodes
        /\ UNCHANGED cut_and_block_pair_
     \/ /\ prev_move_.kind_of_move = kBlockAndCutSwap
        /\ LET block == prev_move_.first
               cut   == prev_move_.second
               expr  == SwapAt(polish_expr_, block, cut)
           IN  /\ polish_expr_' = expr
               /\ nodes' = ReverseBlockNodeWithCutNode_(
                              nodes, At(expr, block).node, At(expr, cut).node)
               /\ cut_and_block_pair_' =
                    RestoredPairsFormedByNeighbors_(cut_and_block_pair_,
                                                    expr, cut)
  /\ prev_move_' = NoMove
  /\ fpLast' = "restore"
  /\ bottom_left' = bottom_left
  /\ UNCHANGED <<fpPc, blocks_, root_, fpBefore>>

(***************************************************************************)
(*                     S I M U L A T E D   A N N E A L I N G               *)
(***************************************************************************)

initial_temp_unit == 100000

freezing_temp == 10

num_of_unit_moves_per_temp == 1

\* number_of_blocks, the last argument of SimulateAnnealing.
number_of_blocks == Len(blocks_)

num_of_moves_per_temp == num_of_unit_moves_per_temp * number_of_blocks

\* The aspect ratio constraints of the instances: bounds as
\* <<numerator, denominator>>.  No floorplan of the blocks is wider than
\* the sum of the widths or lower than the largest height, so no
\* floorplan meets the second constraint.
Constraints ==
  {[lower_bound |-> <<1, 2>>, upper_bound |-> <<2, 1>>],
   [lower_bound |-> <<3, 1>>, upper_bound |-> <<4, 1>>]}

\* The cooling factor SimulateAnnealing is called with, as
\* <<numerator, denominator>>.  main passes 0.85, whose powers leave the
\* integers; the temperature only counts the rounds of the loop, and with
\* this factor the temperature of 100000 per block falls below the
\* freezing temperature with the first cooling.
CoolingFactors == {<<1, 100000>>}

\* A cooling factor that takes the temperature of 100000 per block below
\* the freezing temperature with the fifteenth cooling of two blocks.
SlowCoolingFactors == {<<1, 2>>}

\* IsComplyWithAspectRatioConstraint: lower_bound < width / height and
\* width / height < upper_bound.
IsComplyWithAspectRatioConstraint(width, height, c) ==
  /\ c.lower_bound[1] * height < width * c.lower_bound[2]
  /\ width * c.upper_bound[2] < c.upper_bound[1] * height

\* SlicingTree::Width and SlicingTree::Height: the size stored at the root.
Width == nodes[root_].width

Height == nodes[root_].height

\* SlicingTree::Snapshot: the expression, sliced to drop the tree nodes.
Snapshot ==
  [k \in 1..Len(polish_expr_) |->
     [block |-> polish_expr_[k].block, cut |-> polish_expr_[k].cut]]

\* The expression of a snapshot, the node pointers still null.
ExprOfSnapshot(snap) ==
  [k \in 1..Len(snap) |->
     [block |-> snap[k].block, cut |-> snap[k].cut, node |-> Nil]]

\* The indices of the cuts that a block follows.
PairsOfExpr(expr) ==
  LET at == {i \in 0..(Len(expr) - 2) :
               IsCut(At(expr, i)) /\ IsBlock(At(expr, i + 1))}
      RECURSIVE Sorted(_)
      Sorted(S) == IF S = {} THEN <<>>
                   ELSE LET m == CHOOSE x \in S : \A y \in S : x <= y
                        IN  <<m>> \o Sorted(S \ {m})
  IN  Sorted(at)

\* temp < freezing_temp
IsFrozen(t) == t[1] < freezing_temp * t[2]

\* rejected_moves / static_cast<double>(num_of_moves_per_temp) > 0.95
MostlyRejected(r) == r * 100 > 95 * num_of_moves_per_temp

NotJudged == [comply |-> FALSE, cost |-> 0, accepted |-> FALSE]

AnInit ==
  /\ anPc = "idle"
  /\ constraint = [lower_bound |-> <<0, 1>>, upper_bound |-> <<0, 1>>]
  /\ cooling_factor = <<0, 1>>
  /\ temp = <<0, 1>>
  /\ min_area = 0
  /\ snapshot = <<>>
  /\ moves = 0
  /\ rejected_moves = 0
  /\ uphills = 0
  /\ area_before_perturbation = 0
  /\ anJudged = NotJudged

\* SlicingTree::Perturb: one of the three moves.
Perturb == PerturbBlockSwap \/ PerturbChainInvert \/ PerturbBlockAndCutSwap

\* main: the tree is constructed, SimulateAnnealing is entered with one of
\* the given cooling factors.
AnnealBeginWith(factors) ==
  /\ anPc = "idle"
  /\ fpPc = "ready"
  /\ \E c \in Constraints : constraint' = c
  /\ \E f \in factors :
       /\ cooling_factor' = f
       /\ temp' = <<initial_temp_unit * number_of_blocks, 1>>
  /\ anPc' = "search"
  /\ UNCHANGED <<fpVars, min_area, snapshot, moves, rejected_moves, uphills,
                 area_before_perturbation, anJudged>>

AnnealBegin == AnnealBeginWith(CoolingFactors)

AnnealBeginSlowly == AnnealBeginWith(SlowCoolingFactors)

\* The initial search: while the floorplan does not comply, Perturb.
SearchPerturb ==
  /\ anPc = "search"
  /\ ~IsComplyWithAspectRatioConstraint(Width, Height, constraint)
  /\ Perturb
  /\ UNCHANGED anVars

\* The initial search ends; min_area and snapshot are taken and the first
\* temperature begins.
SearchFound ==
  /\ anPc = "search"
  /\ IsComplyWithAspectRatioConstraint(Width, Height, constraint)
  /\ min_area' = Width * Height
  /\ snapshot' = Snapshot
  /\ moves' = 0
  /\ rejected_moves' = 0
  /\ uphills' = 0
  /\ anPc' = "moves"
  /\ UNCHANGED <<fpVars, constraint, cooling_factor, temp,
                 area_before_perturbation, anJudged>>

\* The loop over the moves of a temperature: Perturb.
MovePerturb ==
  /\ anPc = "moves"
  /\ moves < num_of_moves_per_temp
  /\ (moves - uphills) < num_of_moves_per_temp \div 2
  /\ area_before_perturbation' = Width * Height
  /\ Perturb
  /\ moves' = moves + 1
  /\ anPc' = "judge"
  /\ UNCHANGED <<constraint, cooling_factor, temp, min_area, snapshot,
                 rejected_moves, uphills, anJudged>>

\* The move is accepted: it complies and either costs nothing or the
\* sample drawn from [0, 1) is below exp(-cost / temp).
MoveAccept ==
  /\ anPc = "judge"
  /\ LET area == Width * Height
         cost == area - min_area
     IN  /\ IsComplyWithAspectRatioConstraint(Width, Height, constraint)
         /\ uphills' = IF cost > 0 THEN uphills + 1 ELSE uphills
         /\ IF area <= min_area
            THEN min_area' = area /\ snapshot' = Snapshot
            ELSE UNCHANGED <<min_area, snapshot>>
         /\ anJudged' = [comply |-> TRUE, cost |-> cost, accepted |-> TRUE]
  /\ anPc' = "moves"
  /\ area_before_perturbation' = 0
  /\ UNCHANGED <<fpVars, constraint, cooling_factor, temp, moves,
                 rejected_moves>>

\* What the two assertions after Restore look at.
RestoredAsBefore ==
  /\ Width * Height = area_before_perturbation
  /\ IsComplyWithAspectRatioConstraint(Width, Height, constraint)

\* The move is rejected: it does not comply, or it costs and the sample
\* is not below exp(-cost / temp).  Restore; the assertions hold or are
\* compiled out.
MoveReject ==
  /\ anPc = "judge"
  /\ LET comply == IsComplyWithAspectRatioConstraint(Width, Height, constraint)
         cost == Width * Height - min_area
     IN  /\ ~comply \/ cost > 0
         /\ anJudged' = [comply |-> comply, cost |-> cost, accepted |-> FALSE]
  /\ Restore
  /\ rejected_moves' = rejected_moves + 1
  /\ anPc' = "moves"
  /\ area_before_perturbation' = 0
  /\ UNCHANGED <<constraint, cooling_factor, temp, min_area, snapshot, moves,
                 uphills>>

\* The move is rejected and an assertion after Restore fails.
MoveRejectAssertFails ==
  /\ anPc = "judge"
  /\ LET comply == IsComplyWithAspectRatioConstraint(Width, Height, constraint)
         cost == Width * Height - min_area
     IN  /\ ~comply \/ cost > 0
         /\ anJudged' = [comply |-> comply, cost |-> cost, accepted |-> FALSE]
  /\ Restore
  /\ rejected_moves' = rejected_moves + 1
  /\ anPc' = "abort"
  /\ UNCHANGED <<constraint, cooling_factor, temp, min_area, snapshot, moves,
                 uphills, area_before_perturbation>>
  /\ ~RestoredAsBefore'

\* The moves of the temperature are over: cool down, then stop or begin
\* the next temperature.
CoolDown ==
  /\ anPc = "moves"
  /\ ~(/\ moves < num_of_moves_per_temp
       /\ (moves - uphills) < num_of_moves_per_temp \div 2)
  /\ LET cooled == <<temp[1] * cooling_factor[1], temp[2] * cooling_factor[2]>>
     IN  /\ temp' = cooled
         /\ IF MostlyRejected(rejected_moves) \/ IsFrozen(cooled)
            THEN /\ anPc' = "rebuild"
                 /\ UNCHANGED <<moves, rejected_moves, uphills>>
            ELSE /\ anPc' = "moves"
                 /\ moves' = 0
                 /\ rejected_moves' = 0
                 /\ uphills' = 0
  /\ UNCHANGED <<fpVars, constraint, cooling_factor, min_area, snapshot,
                 area_before_perturbation, anJudged>>

\* SlicingTree::RebuildFromSnapshot: the expression is the snapshot and
\* the tree is built anew from it.
RebuildFromSnapshot ==
  LET built == BuildTreeFromPolishExpr_(ExprOfSnapshot(snapshot))
  IN  /\ polish_expr_' = built.expr
      /\ nodes' = built.nodes
      /\ root_' = built.root
      /\ cut_and_block_pair_' = PairsOfExpr(built.expr)
      /\ prev_move_' = NoMove
      /\ fpLast' = "rebuild"
      /\ UNCHANGED <<fpPc, blocks_, fpBefore, bottom_left>>

\* tree.RebuildFromSnapshot(snapshot) and, the assertion passed,
\* tree.UpdateCoordinateOfBlocks().
RebuildAndPlace ==
  LET built == BuildTreeFromPolishExpr_(ExprOfSnapshot(snapshot))
      placed == UpdateCoordinateFromOrigin(built.nodes, built.root)
  IN  /\ polish_expr_' = built.expr
      /\ nodes' = placed.nodes
      /\ root_' = built.root
      /\ cut_and_block_pair_' = PairsOfExpr(built.expr)
      /\ prev_move_' = NoMove
      /\ bottom_left' = placed.bottom_left
      /\ fpLast' = "rebuild"
      /\ UNCHANGED <<fpPc, blocks_, fpBefore>>

\* After the loop: the tree is rebuilt from the snapshot; the assertion
\* holds or is compiled out.
Rebuild ==
  /\ anPc = "rebuild"
  /\ RebuildAndPlace
  /\ anPc' = "done"
  /\ UNCHANGED <<constraint, cooling_factor, temp, min_area, snapshot, moves,
                 rejected_moves, uphills, area_before_perturbation, anJudged>>

\* The assertion after the rebuild fails.
RebuildAssertFails ==
  /\ anPc = "rebuild"
  /\ RebuildFromSnapshot
  /\ ~(Width' * Height' = min_area)
  /\ anPc' = "abort"
  /\ UNCHANGED <<constraint, cooling_factor, temp, min_area, snapshot, moves,
                 rejected_moves, uphills, area_before_perturbation, anJudged>>

(***************************************************************************)
(*                           P A R T I T I O N E R                         *)
(***************************************************************************)

\* Number of cells of the netlist.
NumCells == 4

\* Largest number of nets of the netlist.
MaxNets == 2

Cells == 1..NumCells

kBlockA == "A"

kBlockB == "B"

Tags == {kBlockA, kBlockB}

Other(tag) == IF tag = kBlockA THEN kBlockB ELSE kBlockA

\* The balance factors of the inputs, as <<numerator, denominator>>; both
\* are exact in binary floating point, and so are their products below.
BalanceFactors == {<<1, 2>>}

\* A balance factor whose bounds for four cells are not integers: 0.25,
\* with the bounds 1.5 and 2.5.
FractionalBalanceFactors == {<<1, 4>>}

\* The cells of a net in the order they are listed: ascending sequences
\* without repetition (the parser drops duplicates).
RECURSIVE SetToSeq(_)
SetToSeq(S) ==
  IF S = {} THEN <<>>
  ELSE LET m == CHOOSE x \in S : \A y \in S : x <= y
       IN  <<m>> \o SetToSeq(S \ {m})

\* The netlists of the inputs: 1 .. MaxNets nets, each a non-empty set of
\* cells, every cell on at least one net (a cell exists because a net
\* names it).
Netlists ==
  {nl \in UNION {[1..k -> (SUBSET Cells) \ {{}}] : k \in 1..MaxNets} :
     \A c \in Cells : \E n \in DOMAIN nl : c \in nl[n]}

\* Net::cells_ of net n, Cell::nets_ of cell c.
CellsOf(n) == netlist.cells[n]

NetsOf(c) == netlist.nets[c]

Nets == DOMAIN netlist.cells

\* Cell::NumOfPins
NumOfPins(c) == Len(NetsOf(c))

\* pmax of the constructor: the largest number of pins of a cell.
Pmax == CHOOSE p \in 0..MaxNets :
          /\ \E c \in Cells : NumOfPins(c) = p
          /\ \A c \in Cells : NumOfPins(c) <= p

(* size_t values.  A size_t counter is kept as an integer k standing for    *)
(* k modulo 2^64: a negative k is the wrapped value 2^64 + k, larger than   *)
(* every non-negative one.  Sums and differences of counters are sums and  *)
(* differences of the representatives; comparisons are the unsigned ones. *)
ULessEq(x, y) == IF (x < 0) = (y < 0) THEN x <= y ELSE y < 0

UGreater(x, y) == ~ULessEq(x, y)

\* The state the partitioner's private operations work on.
FmState ==
  [cells |-> cell_arr_, dist |-> distribution, size |-> block_size,
   bucket |-> bucket_]

\* FmPartitioner::Bucket_::ToIndex
ToIndex(bk, gain) == gain + bk.pmax

\* FmPartitioner::F and FmPartitioner::T: the element of the distribution
\* pair (1 for A, 2 for B) the reference denotes.
FIndex(st, cell) == IF st.cells[cell].block_tag = kBlockA THEN 1 ELSE 2

TIndex(st, cell) == IF st.cells[cell].block_tag = kBlockB THEN 1 ELSE 2

F(st, cell, net) == st.dist[net][FIndex(st, cell)]

T(st, cell, net) == st.dist[net][TIndex(st, cell)]

\* A removal that leaves max_gain where it was.
ScanDownSkipped(bk, mg) == mg

\* The scan of RemoveCellFromBucket_ for the next non-empty slot.
RECURSIVE ScanDown(_, _)
ScanDown(bk, mg) ==
  IF mg >= -bk.pmax /\ bk.list[ToIndex(bk, mg)] = Nil
  THEN ScanDown(bk, mg - 1) ELSE mg

\* FmPartitioner::RemoveCellFromBucket_ (Bucket::Remove of bucket.cc)
RemoveCellFromBucket_(st, cell) ==
  LET tag == st.cells[cell].block_tag
      c   == st.cells[cell]
      cs1 == IF c.next # Nil THEN [st.cells EXCEPT ![c.next].prev = c.prev]
                             ELSE st.cells
      cs2 == IF c.prev # Nil THEN [cs1 EXCEPT ![c.prev].next = c.next] ELSE cs1
      bk  == st.bucket[tag]
      l1  == IF c.prev # Nil THEN bk.list
             ELSE [bk.list EXCEPT ![ToIndex(bk, c.gain)] = c.next]
      cs3 == [cs2 EXCEPT ![cell].next = Nil, ![cell].prev = Nil]
      bk1 == [bk EXCEPT !.size = bk.size - 1, !.list = l1]
      bk2 == [bk1 EXCEPT !.max_gain = ScanDown(bk1, bk1.max_gain)]
  IN  [st EXCEPT !.cells = cs3, !.bucket[tag] = bk2]

\* FmPartitioner::AddCellToBucket_ (Bucket::Add of bucket.cc)
AddCellToBucket_(st, cell) ==
  LET tag == st.cells[cell].block_tag
      c   == st.cells[cell]
      bk  == st.bucket[tag]
      prev_head == bk.list[ToIndex(bk, c.gain)]
      cs1 == IF prev_head # Nil
             THEN [st.cells EXCEPT ![cell].next = prev_head,
                                   ![prev_head].prev = cell]
             ELSE st.cells
      bk1 == [bk EXCEPT !.size = bk.size + 1,
                        !.list[ToIndex(bk, c.gain)] = cell,
                        !.max_gain = Max(bk.max_gain, c.gain)]
  IN  [st EXCEPT !.cells = cs1, !.bucket[tag] = bk1]

\* FmPartitioner::UpdateCellToGain_
UpdateCellToGain_(st, cell, gain) ==
  Once(RemoveCellFromBucket_(st, cell),
       LAMBDA st1 :
         Once([st1 EXCEPT !.cells[cell].gain = gain],
              LAMBDA st2 : AddCellToBucket_(st2, cell)))

\* for each cell on the net, from index i: if it is free, change its gain
\* by delta.
RECURSIVE UpdateAllFree(_, _, _, _)
UpdateAllFree(st, net, i, delta) ==
  IF i > Len(CellsOf(net)) THEN st
  ELSE LET neighbor == CellsOf(net)[i]
       IN  Once(IF ~st.cells[neighbor].is_locked_
                THEN UpdateCellToGain_(st, neighbor,
                                       st.cells[neighbor].gain + delta)
                ELSE st,
                LAMBDA st1 : UpdateAllFree(st1, net, i + 1, delta))

\* The loop without the test of the block of the neighbor: the first free
\* cell of the net gets its gain changed by delta.
RECURSIVE UpdateFirstFree(_, _, _, _, _)
UpdateFirstFree(st, net, i, tag, delta) ==
  IF i > Len(CellsOf(net)) THEN st
  ELSE LET neighbor == CellsOf(net)[i]
       IN  IF ~st.cells[neighbor].is_locked_
           THEN UpdateCellToGain_(st, neighbor,
                                  st.cells[neighbor].gain + delta)
           ELSE UpdateFirstFree(st, net, i + 1, tag, delta)

\* for each cell on the net, from index i: the first that is free and in
\* block tag gets its gain changed by delta, and the loop breaks.
RECURSIVE UpdateFirstFreeIn(_, _, _, _, _)
UpdateFirstFreeIn(st, net, i, tag, delta) ==
  IF i > Len(CellsOf(net)) THEN st
  ELSE LET neighbor == CellsOf(net)[i]
       IN  IF st.cells[neighbor].block_tag = tag
              /\ ~st.cells[neighbor].is_locked_
           THEN UpdateCellToGain_(st, neighbor,
                                  st.cells[neighbor].gain + delta)
           ELSE UpdateFirstFreeIn(st, net, i + 1, tag, delta)

\* Block::Remove and Block::Add (partition/src/block.cc)
BlockRemove(st, tag) == [st EXCEPT !.size[tag] = st.size[tag] - 1]

\* An Add that does not count the cell.
BlockAddUncounted(st, tag) == st

BlockAdd(st, tag) == [st EXCEPT !.size[tag] = st.size[tag] + 1]

\* One iteration of the loop over the nets of the base cell in RunPass_.
MoveOnNet(st, base_cell, net) ==
  LET from == st.cells[base_cell].block_tag
      to   == Other(from)
      fi   == FIndex(st, base_cell)
      ti   == TIndex(st, base_cell)
      \* check critical nets before the move
      Before == IF st.dist[net][ti] = 0 THEN UpdateAllFree(st, net, 1, 1)
                ELSE IF st.dist[net][ti] = 1
                     THEN UpdateFirstFreeIn(st, net, 1, to, -1)
                     ELSE st
      \* change the net distribution to reflect the move
      Change(st1) ==
        LET st2 == [st1 EXCEPT !.dist[net][fi] = st1.dist[net][fi] - 1]
            st3 == BlockRemove(st2, from)
            st4 == [st3 EXCEPT !.dist[net][ti] = st3.dist[net][ti] + 1]
        IN  BlockAdd(st4, to)
      \* check critical nets after the move
      After(st5) == IF st5.dist[net][fi] = 0 THEN UpdateAllFree(st5, net, 1, -1)
                    ELSE IF st5.dist[net][fi] = 1
                         THEN UpdateFirstFreeIn(st5, net, 1, from, 1)
                         ELSE st5
  IN  Once(Before, LAMBDA st1 : Once(Change(st1), After))

RECURSIVE MoveOnNets(_, _, _)
MoveOnNets(st, base_cell, i) ==
  IF i > Len(NetsOf(base_cell)) THEN st
  ELSE Once(MoveOnNet(st, base_cell, NetsOf(base_cell)[i]),
            LAMBDA st1 : MoveOnNets(st1, base_cell, i + 1))

\* static_cast<size_t>((0.5 - bf / 2) * n) and ((0.5 + bf / 2) * n)
BalanceLb == (NumCells * (balance_factor_[2] - balance_factor_[1]))
               \div (2 * balance_factor_[2])

BalanceUb == (NumCells * (balance_factor_[2] + balance_factor_[1]))
               \div (2 * balance_factor_[2])

\* FmPartitioner::IsBalancedAfterMoving_(from, to)
IsBalancedAfterMoving_(st, from, to) ==
  LET size_of_from_after_moving == st.size[from] - 1
  IN  /\ ULessEq(BalanceLb, size_of_from_after_moving)
      /\ ULessEq(size_of_from_after_moving, BalanceUb)

\* A choice that looks at bucket A alone when one of the buckets is empty.
ChooseBaseCellOfBucketA(st) ==
  LET ba == st.bucket[kBlockA]
      bb == st.bucket[kBlockB]
      high_a == IF ba.size # 0 THEN ba.list[ToIndex(ba, ba.max_gain)] ELSE Nil
      high_b == IF bb.size # 0 THEN bb.list[ToIndex(bb, bb.max_gain)] ELSE Nil
      a_bigger == UGreater(st.size[kBlockA], st.size[kBlockB])
  IN  IF high_a = Nil \/ high_b = Nil
      THEN high_a
      ELSE IF ~IsBalancedAfterMoving_(st, kBlockA, kBlockB)
              /\ ~IsBalancedAfterMoving_(st, kBlockB, kBlockA)
      THEN (IF a_bigger THEN high_a ELSE high_b)
      ELSE IF ~IsBalancedAfterMoving_(st, kBlockA, kBlockB) THEN high_b
      ELSE IF ~IsBalancedAfterMoving_(st, kBlockB, kBlockA) THEN high_a
      ELSE IF st.cells[high_a].gain = st.cells[high_b].gain
      THEN (IF a_bigger THEN high_a ELSE high_b)
      ELSE IF st.cells[high_a].gain > st.cells[high_b].gain THEN high_a
      ELSE high_b

\* FmPartitioner::ChooseBaseCell_; Nil when no cell is left.
ChooseBaseCell_(st) ==
  LET ba == st.bucket[kBlockA]
      bb == st.bucket[kBlockB]
      high_a == IF ba.size # 0 THEN ba.list[ToIndex(ba, ba.max_gain)] ELSE Nil
      high_b == IF bb.size # 0 THEN bb.list[ToIndex(bb, bb.max_gain)] ELSE Nil
      a_bigger == UGreater(st.size[kBlockA], st.size[kBlockB])
  IN  IF high_a = Nil \/ high_b = Nil
      THEN (IF high_a # Nil THEN high_a ELSE high_b)
      ELSE IF ~IsBalancedAfterMoving_(st, kBlockA, kBlockB)
              /\ ~IsBalancedAfterMoving_(st, kBlockB, kBlockA)
      THEN (IF a_bigger THEN high_a ELSE high_b)
      ELSE IF ~IsBalancedAfterMoving_(st, kBlockA, kBlockB) THEN high_b
      ELSE IF ~IsBalancedAfterMoving_(st, kBlockB, kBlockA) THEN high_a
      ELSE IF st.cells[high_a].gain = st.cells[high_b].gain
      THEN (IF a_bigger THEN high_a ELSE high_b)
      ELSE IF st.cells[high_a].gain > st.cells[high_b].gain THEN high_a
      ELSE high_b

\* The body of the loop of FmPartitioner::RunPass_ for base_cell: the
\* state after it and the record pushed on the history.
MoveBaseCell(st, base_cell) ==
  LET Locked(st1) == [st1 EXCEPT !.cells[base_cell].is_locked_ = TRUE]
      Moved(st2) ==
        LET from == st2.cells[base_cell].block_tag
            to   == Other(from)
            rec  == [gain |-> st2.cells[base_cell].gain, cell |-> base_cell,
                     is_balanced |-> IsBalancedAfterMoving_(st2, from, to)]
        IN  Once(MoveOnNets(st2, base_cell, 1),
                 LAMBDA st3 :
                   [st |-> [st3 EXCEPT !.cells[base_cell].block_tag = to],
                    record |-> rec])
  IN  Once(RemoveCellFromBucket_(st, base_cell),
           LAMBDA st1 : Once(Locked(st1), Moved))

\* FmPartitioner::CalculateDistribution_
CalculateDistribution_(st) ==
  [st EXCEPT !.dist =
     [n \in Nets |->
        <<Cardinality({i \in 1..Len(CellsOf(n)) :
                         st.cells[CellsOf(n)[i]].block_tag = kBlockA}),
          Cardinality({i \in 1..Len(CellsOf(n)) :
                         st.cells[CellsOf(n)[i]].block_tag # kBlockA})>>]]

\* The gain CalculateCellGains_ computes for a cell.
RECURSIVE GainOver(_, _, _)
GainOver(st, cell, i) ==
  IF i > Len(NetsOf(cell)) THEN 0
  ELSE (IF F(st, cell, NetsOf(cell)[i]) = 1 THEN 1 ELSE 0)
       - (IF T(st, cell, NetsOf(cell)[i]) = 0 THEN 1 ELSE 0)
       + GainOver(st, cell, i + 1)

RECURSIVE CalculateGainsFrom(_, _)
CalculateGainsFrom(st, cell) ==
  IF cell > NumCells THEN st
  ELSE LET WithGain == [st EXCEPT !.cells[cell].gain = GainOver(st, cell, 1)]
           WithMax(st2) ==
             LET tag == st2.cells[cell].block_tag
             IN  [st2 EXCEPT !.bucket[tag].max_gain =
                    Max(st2.bucket[tag].max_gain, st2.cells[cell].gain)]
       IN  Once(WithGain,
                LAMBDA st1 :
                  Once(AddCellToBucket_(st1, cell),
                       LAMBDA st2 :
                         Once(WithMax(st2),
                              LAMBDA st3 : CalculateGainsFrom(st3, cell + 1))))

\* FmPartitioner::CalculateCellGains_
CalculateCellGains_(st) ==
  Once([st EXCEPT !.bucket[kBlockA].max_gain = -st.bucket[kBlockA].pmax,
                  !.bucket[kBlockB].max_gain = -st.bucket[kBlockB].pmax],
       LAMBDA st1 : CalculateGainsFrom(st1, 1))

\* The search with >= in place of >: the last index that attains the
\* largest gain.
RECURSIVE FindMaxFromLast(_, _, _, _, _)
FindMaxFromLast(h, i, curr_gain, max_gain, max_gain_idx) ==
  IF i >= Len(h) THEN max_gain_idx
  ELSE LET g == curr_gain + At(h, i).gain
       IN  IF g >= max_gain /\ At(h, i).is_balanced
           THEN FindMaxFromLast(h, i + 1, g, g, i)
           ELSE FindMaxFromLast(h, i + 1, g, max_gain, max_gain_idx)

\* FmPartitioner::FindPartitionOfMaxPositiveBalancedGainFromHistory_, from
\* index i (0-based) on.
RECURSIVE FindMaxFrom(_, _, _, _, _)
FindMaxFrom(h, i, curr_gain, max_gain, max_gain_idx) ==
  IF i >= Len(h) THEN max_gain_idx
  ELSE LET g == curr_gain + At(h, i).gain
       IN  IF g > max_gain /\ At(h, i).is_balanced
           THEN FindMaxFrom(h, i + 1, g, g, i)
           ELSE FindMaxFrom(h, i + 1, g, max_gain, max_gain_idx)

\* The best balanced prefix with a gain that need not be positive.
FindPartitionOfMaxBalancedGainFromHistory_(h) ==
  FindMaxFrom(h, 0, 0, -1, -1)

FindPartitionOfMaxPositiveBalancedGainFromHistory_(h) ==
  FindMaxFrom(h, 0, 0, 0, -1)

\* A revert that takes no move back.
RevertNoMoves(st, h, i) == st

\* A revert that takes back the moves into block A alone.
RECURSIVE RevertMovesIntoA(_, _, _)
RevertMovesIntoA(st, h, i) ==
  IF i >= Len(h) THEN st
  ELSE LET cell == At(h, i).cell
           st1 == IF st.cells[cell].block_tag = kBlockA
                  THEN BlockAdd(BlockRemove(
                         [st EXCEPT !.cells[cell].block_tag = kBlockB],
                         kBlockA), kBlockB)
                  ELSE st
       IN  Once(st1, LAMBDA st2 : RevertMovesIntoA(st2, h, i + 1))

\* FmPartitioner::RevertAllMovesAfter_(idx)
RECURSIVE RevertAllMovesAfter_(_, _, _)
RevertAllMovesAfter_(st, h, i) ==
  IF i >= Len(h) THEN st
  ELSE LET cell == At(h, i).cell
           st1 == IF st.cells[cell].block_tag = kBlockA
                  THEN BlockAdd(BlockRemove(
                         [st EXCEPT !.cells[cell].block_tag = kBlockB],
                         kBlockA), kBlockB)
                  ELSE BlockRemove(BlockAdd(
                         [st EXCEPT !.cells[cell].block_tag = kBlockA],
                         kBlockA), kBlockB)
       IN  Once(st1, LAMBDA st2 : RevertAllMovesAfter_(st2, h, i + 1))

\* for (auto& cell : cell_arr_) cell->Free();
FreeAll(st) ==
  [st EXCEPT !.cells = [c \in Cells |-> [st.cells[c] EXCEPT !.is_locked_ = FALSE]]]

\* FmPartitioner::GetCutSize with Net::IsCut
GetCutSize ==
  Cardinality({n \in Nets : distribution[n][1] * distribution[n][2] # 0})

EmptyNetlist == [cells |-> <<>>, nets |-> [c \in Cells |-> <<>>]]

FmInit ==
  /\ fmPc = "new"
  /\ netlist = EmptyNetlist
  /\ balance_factor_ = <<1, 2>>
  /\ cell_arr_ = [c \in Cells |-> [block_tag |-> kBlockA, is_locked_ |-> FALSE,
                                   gain |-> 0, prev |-> Nil, next |-> Nil]]
  /\ distribution = <<>>
  /\ block_size = [t \in Tags |-> 0]
  /\ bucket_ = [t \in Tags |-> [list |-> <<>>, size |-> 0, max_gain |-> 0,
                                pmax |-> 0]]
  /\ history_ = <<>>
  /\ fmTagsBefore = [c \in Cells |-> kBlockA]
  /\ fmPassGain = 0
  /\ fmPasses = 0

SetState(st) ==
  /\ cell_arr_' = st.cells
  /\ distribution' = st.dist
  /\ block_size' = st.size
  /\ bucket_' = st.bucket

\* Parser::Parse and FmPartitioner::FmPartitioner: the netlist is linked
\* and the bucket lists are given their size.
FmConstructWith(factors) ==
  /\ fmPc = "new"
  /\ \E nl \in Netlists, bf \in factors :
       /\ netlist' = [cells |-> [n \in DOMAIN nl |-> SetToSeq(nl[n])],
                      nets  |-> [c \in Cells |->
                                   SetToSeq({n \in DOMAIN nl : c \in nl[n]})]]
       /\ balance_factor_' = bf
       /\ distribution' = [n \in DOMAIN nl |-> <<0, 0>>]
  /\ LET pmax == Pmax'
     IN  bucket_' = [t \in Tags |->
                       [list |-> [i \in 0..(2 * pmax) |-> Nil], size |-> 0,
                        max_gain |-> 0, pmax |-> pmax]]
  /\ fmPc' = "loaded"
  /\ UNCHANGED <<cell_arr_, block_size, history_, fmTagsBefore, fmPassGain,
                 fmPasses>>

FmConstruct == FmConstructWith(BalanceFactors)

FmConstructFractional == FmConstructWith(FractionalBalanceFactors)

\* FmPartitioner::InitPartition_: a coin flip for every cell.
InitPartition ==
  /\ fmPc = "loaded"
  /\ \E tags \in [Cells -> Tags] :
       /\ cell_arr_' = [c \in Cells |-> [cell_arr_[c] EXCEPT !.block_tag = tags[c]]]
       /\ block_size' = [t \in Tags |-> Cardinality({c \in Cells : tags[c] = t})]
  /\ fmPc' = "ready"
  /\ UNCHANGED <<netlist, balance_factor_, distribution, bucket_, history_,
                 fmTagsBefore, fmPassGain, fmPasses>>

\* The head of the loop of Partition(): CalculateDistribution_ and
\* CalculateCellGains_.
BeginPass ==
  /\ fmPc \in {"ready", "between"}
  /\ \E st \in {CalculateDistribution_(FmState)} :
       \E st1 \in {CalculateCellGains_(st)} : SetState(st1)
  /\ fmTagsBefore' = [c \in Cells |-> cell_arr_[c].block_tag]
  /\ fmPasses' = fmPasses + 1
  /\ fmPc' = "pass"
  /\ UNCHANGED <<netlist, balance_factor_, history_, fmPassGain>>

\* One iteration of the loop of RunPass_: a base cell is chosen and moved.
MoveCell ==
  /\ fmPc = "pass"
  /\ ChooseBaseCell_(FmState) # Nil
  /\ \E r \in {MoveBaseCell(FmState, ChooseBaseCell_(FmState))} :
       /\ SetState(r.st)
       /\ history_' = Append(history_, r.record)
  /\ UNCHANGED <<fmPc, netlist, balance_factor_, fmTagsBefore, fmPassGain,
                 fmPasses>>

\* RunPass_ returns (no base cell); the rest of the loop body of
\* Partition(): the best prefix is kept, the moves after it are reverted,
\* the history is cleared and the cells are freed.
EndPass ==
  /\ fmPc = "pass"
  /\ ChooseBaseCell_(FmState) = Nil
  /\ \E max_gain_idx \in
          {FindPartitionOfMaxPositiveBalancedGainFromHistory_(history_)} :
       /\ \E st \in {RevertAllMovesAfter_(FmState, history_,
                                          max_gain_idx + 1)} :
            SetState(FreeAll(st))
       /\ fmPassGain' = max_gain_idx
       /\ fmPc' = IF max_gain_idx = -1 THEN "done" ELSE "between"
  /\ history_' = <<>>
  /\ UNCHANGED <<netlist, balance_factor_, fmTagsBefore, fmPasses>>

(***************************************************************************)
(*                               R O U T E R                               *)
(***************************************************************************)

\* Number of pin columns of the channel.
NumPins == 3

\* Largest net id of the instances.
MaxNetId == 2

\* Largest distance of a boundary from the channel.
MaxDist == 2

\* How many tracks beyond number_of_nets_ the loop of RouteInTracks_ is
\* followed when the assertion on the number of tracks is compiled out.
ExtraTracks == 1

kEmptySlot == 0

Columns == 0..(NumPins - 1)

\* vector::size() of a vector held as a function on 0..(size - 1).
SizeOf(v) == Cardinality(DOMAIN v)

\* The rectilinear boundary of one side: the distance from the channel at
\* every column.  A side either has no boundary interval at all or lies
\* at a distance of at least one at every column.
Profiles ==
  {p \in [Columns -> 0..MaxDist] :
     (\E c \in Columns : p[c] = 0) => (\A c \in Columns : p[c] = 0)}

\* The intervals of distance d of a profile: the maximal runs of columns
\* at that distance, half open [l, r).
RunsAt(p, d) ==
  {<<l, r>> \in (0..SizeOf(p)) \X (0..SizeOf(p)) :
     /\ l < r
     /\ \A c \in l..(r - 1) : p[c] = d
     /\ (l = 0 \/ p[l - 1] # d)
     /\ (r = SizeOf(p) \/ p[r] # d)}

RECURSIVE SortIntervals(_)
SortIntervals(S) ==
  IF S = {} THEN <<>>
  ELSE LET m == CHOOSE x \in S : \A y \in S : x[1] <= y[1]
       IN  <<m>> \o SortIntervals(S \ {m})

\* The vector of boundaries of a profile: the element of (0-based) index d
\* holds the intervals of distance d, sorted.  Its size is the largest
\* distance of the profile plus one.
BoundariesOf(p) ==
  LET m == CHOOSE d \in {p[c] : c \in DOMAIN p} :
             \A c \in DOMAIN p : p[c] <= d
  IN  [i \in 1..(m + 1) |-> SortIntervals(RunsAt(p, i - 1))]

\* The pins of the instances: the net ids are positive and consecutive,
\* so every id up to the largest has a pin.
PinRows == [Columns -> 0..MaxNetId]

LargestId(top, bottom) ==
  CHOOSE n \in {top[c] : c \in DOMAIN top} \cup {bottom[c] : c \in DOMAIN top} :
    \A c \in DOMAIN top : top[c] <= n /\ bottom[c] <= n

ValidPins(top, bottom) ==
  /\ LargestId(top, bottom) >= 1
  /\ \A n \in 1..LargestId(top, bottom) :
       \E c \in DOMAIN top : top[c] = n \/ bottom[c] = n

\* util.cc
IsContainedBy(b, a) == a[1] < b[1] /\ a[2] > b[2]

IsAdjacent(a, b) == a[1] = b[2] \/ a[2] = b[1]

Union(a, b) == <<Min(a[1], b[1]), Max(a[2], b[2])>>

\* s with x inserted before (0-based) index i: list::insert.
InsertAt(s, i, x) == SubSeq(s, 1, i) \o <<x>> \o SubSeq(s, i + 1, Len(s))

\* The interval of a net: Router::ConstructHorizontalConstraintGraph_,
\* the first loop.
IntervalOfNet(inst, n) ==
  LET number_of_pins_ == SizeOf(inst.top_net_ids)
      cols == {c \in DOMAIN inst.top_net_ids :
                 inst.top_net_ids[c] = n \/ inst.bottom_net_ids[c] = n}
  IN  <<CHOOSE c \in cols \cup {number_of_pins_ - 1} :
          \A e \in cols \cup {number_of_pins_ - 1} : c <= e,
        CHOOSE c \in cols \cup {0} : \A e \in cols \cup {0} : c >= e>>

\* The orders std::sort may leave the nets in: sorted by the start of the
\* interval, nets of equal start in any order.
HcgOrders(inst, n_nets) ==
  {h \in [1..n_nets -> 1..n_nets] :
     /\ \A i, j \in 1..n_nets : i # j => h[i] # h[j]
     /\ \A i \in 1..(n_nets - 1) :
          IntervalOfNet(inst, h[i])[1] <= IntervalOfNet(inst, h[i + 1])[1]}

\* Router::ConstructVerticalConstraintGraph_, from column i on: g is
\* <<vertical_constraint_graph_, inverted_vertical_constraint_graph_>>.
RECURSIVE ConstructVcgFrom(_, _, _)
ConstructVcgFrom(inst, g, i) ==
  IF i >= SizeOf(inst.top_net_ids) THEN g
  ELSE LET top_net_id == inst.top_net_ids[i]
           bottom_net_id == inst.bottom_net_ids[i]
       IN  IF top_net_id = kEmptySlot \/ bottom_net_id = kEmptySlot
              \/ top_net_id = bottom_net_id
           THEN ConstructVcgFrom(inst, g, i + 1)
           ELSE LET v == IF top_net_id \in Range(g[1][bottom_net_id]) THEN g[1]
                         ELSE [g[1] EXCEPT ![bottom_net_id] =
                                 Append(@, top_net_id)]
                    w == IF bottom_net_id \in Range(g[2][top_net_id]) THEN g[2]
                         ELSE [g[2] EXCEPT ![top_net_id] =
                                 Append(@, bottom_net_id)]
                IN  ConstructVcgFrom(inst, <<v, w>>, i + 1)

\* The merge of one interval into the list at iterator it (the while loop
\* of RouteInBoundaries_): the list and the iterator after it.
RECURSIVE MergeOne(_, _, _)
MergeOne(list, it, interval) ==
  IF it = Len(list) THEN [list |-> Append(list, interval), it |-> 0]
  ELSE IF IsAdjacent(interval, At(list, it))
  THEN [list |-> [list EXCEPT ![it + 1] = Union(interval, At(list, it))],
        it |-> it]
  ELSE IF interval[2] < At(list, it)[1]
  THEN [list |-> InsertAt(list, it, interval), it |-> it + 1]
  ELSE MergeOne(list, it + 1, interval)

\* for (const auto& interval : boundaries.at(dist)), from index k on.
RECURSIVE MergeAll(_, _, _, _)
MergeAll(list, it, intervals, k) ==
  IF k > Len(intervals) THEN list
  ELSE LET r == MergeOne(list, it, intervals[k])
       IN  MergeAll(r.list, r.it, intervals, k + 1)

\* A routing loop that does not look at the vertical constraints.
AllParentsIgnored(vcg, routed, net_id) == TRUE

\* all_parents_routed of both routing loops.
AllParentsRouted(vcg, routed, net_id) ==
  \A k \in 1..Len(vcg[net_id]) : routed[vcg[net_id][k]]

\* A placement that is not recorded in routed_nets_.
TryRouteUnmarked(s, vcg, e) ==
  IF s.watermark = -1 \/ e.interval[1] > s.watermark
  THEN IF AllParentsRouted(vcg, s.routed, e.net_id)
       THEN [routed |-> s.routed,
             count |-> s.count + 1,
             watermark |-> e.interval[2],
             track |-> Append(s.track, e)]
       ELSE s
  ELSE s

\* A placement that lets an interval start at the watermark.
TryRouteAtWatermark(s, vcg, e) ==
  IF s.watermark = -1 \/ e.interval[1] >= s.watermark
  THEN IF AllParentsRouted(vcg, s.routed, e.net_id)
       THEN [routed |-> [s.routed EXCEPT ![e.net_id] = TRUE],
             count |-> s.count + 1,
             watermark |-> e.interval[2],
             track |-> Append(s.track, e)]
       ELSE s
  ELSE s

\* A placement that does not look at the watermark.
TryRouteAnywhere(s, vcg, e) ==
  IF AllParentsRouted(vcg, s.routed, e.net_id)
  THEN [routed |-> [s.routed EXCEPT ![e.net_id] = TRUE],
        count |-> s.count + 1,
        watermark |-> e.interval[2],
        track |-> Append(s.track, e)]
  ELSE s

\* The body of "if (watermark == -1 || interval.first > watermark)": s is
\* the sweep state [routed, count, watermark, track].
TryRoute(s, vcg, e) ==
  IF s.watermark = -1 \/ e.interval[1] > s.watermark
  THEN IF AllParentsRouted(vcg, s.routed, e.net_id)
       THEN [routed |-> [s.routed EXCEPT ![e.net_id] = TRUE],
             count |-> s.count + 1,
             watermark |-> e.interval[2],
             track |-> Append(s.track, e)]
       ELSE s
  ELSE s

\* for (const auto& boundary : rectilinear_boundaries), from index k on.
RECURSIVE OverBoundaries(_, _, _, _, _)
OverBoundaries(s, vcg, e, list, k) ==
  IF k > Len(list) THEN s
  ELSE OverBoundaries(IF IsContainedBy(e.interval, list[k])
                      THEN TryRoute(s, vcg, e) ELSE s,
                      vcg, e, list, k + 1)

\* The sweep over the horizontal constraint graph of RouteInBoundaries_,
\* from index k on.
RECURSIVE SweepBoundary(_, _, _, _, _)
SweepBoundary(s, vcg, hcg, list, k) ==
  IF k > Len(hcg) THEN s
  ELSE SweepBoundary(IF s.routed[hcg[k].net_id] THEN s
                     ELSE OverBoundaries(s, vcg, hcg[k], list, 1),
                     vcg, hcg, list, k + 1)

\* The sweep over the horizontal constraint graph of RouteInTracks_.
RECURSIVE SweepTrack(_, _, _, _)
SweepTrack(s, vcg, hcg, k) ==
  IF k > Len(hcg) THEN s
  ELSE SweepTrack(IF s.routed[hcg[k].net_id] THEN s
                  ELSE TryRoute(s, vcg, hcg[k]),
                  vcg, hcg, k + 1)

\* A sweep that starts with the watermark the sweep of the track before
\* left behind.
SweepStartAtOldWatermark ==
  [routed |-> routed_nets_, count |-> number_of_routed_nets_,
   watermark |-> IF tracks = <<>> \/ tracks[Len(tracks)] = <<>> THEN -1
                 ELSE tracks[Len(tracks)][Len(tracks[Len(tracks)])].interval[2],
   track |-> <<>>]

SweepStart ==
  [routed |-> routed_nets_, count |-> number_of_routed_nets_,
   watermark |-> -1, track |-> <<>>]

NoInstance ==
  [top_net_ids |-> [c \in Columns |-> 0], bottom_net_ids |-> [c \in Columns |-> 0],
   top_boundaries |-> <<>>, bottom_boundaries |-> <<>>]

RtInit ==
  /\ rtPc = "new"
  /\ instance_ = NoInstance
  /\ number_of_nets_ = 0
  /\ horizontal_constraint_graph_ = <<>>
  /\ vertical_constraint_graph_ = <<>>
  /\ inverted_vertical_constraint_graph_ = <<>>
  /\ routed_nets_ = <<>>
  /\ number_of_routed_nets_ = 0
  /\ top_tracks = <<>>
  /\ bottom_tracks = <<>>
  /\ tracks = <<>>
  /\ rectilinear_boundaries = <<>>
  /\ dist = 0
  /\ rtEmptySweep = FALSE
  /\ rtResults = <<>>

\* Router::Router
RtConstruct ==
  /\ rtPc = "new"
  /\ \E top \in PinRows, bottom \in PinRows, tp \in Profiles, bp \in Profiles :
       /\ ValidPins(top, bottom)
       /\ instance_' = [top_net_ids |-> top, bottom_net_ids |-> bottom,
                        top_boundaries |-> BoundariesOf(tp),
                        bottom_boundaries |-> BoundariesOf(bp)]
       /\ number_of_nets_' = LargestId(top, bottom)
       /\ routed_nets_' = [n \in 0..LargestId(top, bottom) |-> FALSE]
  /\ rtPc' = "loaded"
  /\ UNCHANGED <<rtResults, horizontal_constraint_graph_, vertical_constraint_graph_,
                 inverted_vertical_constraint_graph_, number_of_routed_nets_,
                 top_tracks, bottom_tracks, tracks, rectilinear_boundaries,
                 dist, rtEmptySweep>>

\* The pins of the channel with five columns and four nets: the top row,
\* then the bottom row.
ScenarioPins == <<2, 4, 0, 4, 2>> \o <<3, 1, 3, 1, 3>>

\* The two rows of a sequence of pins.
TopOf(pins) == [c \in 0..(Len(pins) \div 2 - 1) |-> pins[c + 1]]

BottomOf(pins) ==
  [c \in 0..(Len(pins) \div 2 - 1) |-> pins[c + 1 + Len(pins) \div 2]]

\* The channels that differ from it in at most two pins.
WidePins ==
  {pins \in {[[ScenarioPins EXCEPT ![i] = v] EXCEPT ![j] = w] :
               i \in DOMAIN ScenarioPins, j \in DOMAIN ScenarioPins,
               v \in 0..LargestId(TopOf(ScenarioPins), BottomOf(ScenarioPins)),
               w \in 0..LargestId(TopOf(ScenarioPins), BottomOf(ScenarioPins))} :
     ValidPins(TopOf(pins), BottomOf(pins))}

\* Their boundaries: no boundary interval, or one over all the columns at
\* distance one.
WideProfiles == {[c \in DOMAIN TopOf(ScenarioPins) |-> d] : d \in 0..1}

\* Router::Router on one of these channels.
RtConstructWide ==
  /\ rtPc = "new"
  /\ \E pins \in WidePins, tp \in WideProfiles, bp \in WideProfiles :
       /\ instance_' = [top_net_ids |-> TopOf(pins),
                        bottom_net_ids |-> BottomOf(pins),
                        top_boundaries |-> BoundariesOf(tp),
                        bottom_boundaries |-> BoundariesOf(bp)]
       /\ number_of_nets_' = LargestId(TopOf(pins), BottomOf(pins))
       /\ routed_nets_' =
            [n \in 0..LargestId(TopOf(pins), BottomOf(pins)) |-> FALSE]
  /\ rtPc' = "loaded"
  /\ UNCHANGED <<horizontal_constraint_graph_, vertical_constraint_graph_,
                 inverted_vertical_constraint_graph_, number_of_routed_nets_,
                 top_tracks, bottom_tracks, tracks, rectilinear_boundaries,
                 dist, rtEmptySweep, rtResults>>

\* Router::Route up to the first call of RouteInBoundaries_, and the
\* locals of that call.
RouteBegin ==
  /\ rtPc = "loaded"
  /\ \E h \in HcgOrders(instance_, number_of_nets_) :
       horizontal_constraint_graph_' =
         horizontal_constraint_graph_ \o
           [i \in 1..number_of_nets_ |->
              [interval |-> IntervalOfNet(instance_, h[i]), net_id |-> h[i]]]
  /\ LET empty == [n \in 0..number_of_nets_ |-> <<>>]
         g == ConstructVcgFrom(instance_, <<empty, empty>>, 0)
     IN  /\ vertical_constraint_graph_' = g[1]
         /\ inverted_vertical_constraint_graph_' = g[2]
  /\ top_tracks' = [i \in 1..(Len(instance_.top_boundaries) - 1) |-> <<>>]
  /\ dist' = Len(instance_.top_boundaries) - 1
  /\ rectilinear_boundaries' = <<>>
  /\ rtPc' = "top"
  /\ UNCHANGED <<rtResults, instance_, number_of_nets_, routed_nets_,
                 number_of_routed_nets_, bottom_tracks, tracks, rtEmptySweep>>

\* One iteration of the loop over the distances of
\* RouteInBoundaries_(kTop).
RouteTopStep ==
  /\ rtPc = "top"
  /\ dist > 0
  /\ LET list == MergeAll(rectilinear_boundaries, 0,
                          At(instance_.top_boundaries, dist), 1)
         s == SweepBoundary(SweepStart, vertical_constraint_graph_,
                            horizontal_constraint_graph_, list, 1)
     IN  /\ rectilinear_boundaries' = list
         /\ routed_nets_' = s.routed
         /\ number_of_routed_nets_' = s.count
         /\ top_tracks' = [top_tracks EXCEPT ![dist] = @ \o s.track]
  /\ dist' = dist - 1
  /\ UNCHANGED <<rtResults, rtPc, instance_, number_of_nets_, horizontal_constraint_graph_,
                 vertical_constraint_graph_,
                 inverted_vertical_constraint_graph_, bottom_tracks, tracks,
                 rtEmptySweep>>

\* RouteInBoundaries_(kTop) returns; RouteInBoundaries_(kBottom) begins.
RouteTopReturn ==
  /\ rtPc = "top"
  /\ dist = 0
  /\ bottom_tracks' = [i \in 1..(Len(instance_.bottom_boundaries) - 1) |-> <<>>]
  /\ dist' = Len(instance_.bottom_boundaries) - 1
  /\ rectilinear_boundaries' = <<>>
  /\ rtPc' = "bottom"
  /\ UNCHANGED <<rtResults, instance_, number_of_nets_, horizontal_constraint_graph_,
                 vertical_constraint_graph_,
                 inverted_vertical_constraint_graph_, routed_nets_,
                 number_of_routed_nets_, top_tracks, tracks, rtEmptySweep>>

\* One iteration of the loop over the distances of
\* RouteInBoundaries_(kBottom).
RouteBottomStep ==
  /\ rtPc = "bottom"
  /\ dist > 0
  /\ LET list == MergeAll(rectilinear_boundaries, 0,
                          At(instance_.bottom_boundaries, dist), 1)
         s == SweepBoundary(SweepStart, inverted_vertical_constraint_graph_,
                            horizontal_constraint_graph_, list, 1)
     IN  /\ rectilinear_boundaries' = list
         /\ routed_nets_' = s.routed
         /\ number_of_routed_nets_' = s.count
         /\ bottom_tracks' = [bottom_tracks EXCEPT ![dist] = @ \o s.track]
  /\ dist' = dist - 1
  /\ UNCHANGED <<rtResults, rtPc, instance_, number_of_nets_, horizontal_constraint_graph_,
                 vertical_constraint_graph_,
                 inverted_vertical_constraint_graph_, top_tracks, tracks,
                 rtEmptySweep>>

\* RouteInBoundaries_(kBottom) returns; RouteInTracks_ begins.
RouteBottomReturn ==
  /\ rtPc = "bottom"
  /\ dist = 0
  /\ tracks' = <<>>
  /\ rtPc' = "tracks"
  /\ UNCHANGED <<rtResults, instance_, number_of_nets_, horizontal_constraint_graph_,
                 vertical_constraint_graph_,
                 inverted_vertical_constraint_graph_, routed_nets_,
                 number_of_routed_nets_, top_tracks, bottom_tracks,
                 rectilinear_boundaries, dist, rtEmptySweep>>

\* One iteration of the while loop of RouteInTracks_.  The assertion
\* tracks.size() < number_of_nets_ holds, or it is compiled out (NDEBUG)
\* and the loop goes on; the model follows it ExtraTracks tracks further.
RouteTrack ==
  /\ rtPc = "tracks"
  /\ number_of_routed_nets_ < number_of_nets_
  /\ Len(tracks) < number_of_nets_ + ExtraTracks
  /\ LET s == SweepTrack(SweepStart, vertical_constraint_graph_,
                         horizontal_constraint_graph_, 1)
     IN  /\ routed_nets_' = s.routed
         /\ number_of_routed_nets_' = s.count
         /\ tracks' = Append(tracks, s.track)
         /\ rtEmptySweep' = (rtEmptySweep \/ s.track = <<>>)
  /\ UNCHANGED <<rtResults, rtPc, instance_, number_of_nets_, horizontal_constraint_graph_,
                 vertical_constraint_graph_,
                 inverted_vertical_constraint_graph_, top_tracks,
                 bottom_tracks, rectilinear_boundaries, dist>>

\* The assertion tracks.size() < number_of_nets_ of RouteInTracks_ fails
\* in a build that keeps assertions: the process aborts.
RouteTrackAssertFails ==
  /\ rtPc = "tracks"
  /\ number_of_routed_nets_ < number_of_nets_
  /\ ~(Len(tracks) < number_of_nets_)
  /\ rtPc' = "abort"
  /\ UNCHANGED <<rtResults, instance_, number_of_nets_, horizontal_constraint_graph_,
                 vertical_constraint_graph_,
                 inverted_vertical_constraint_graph_, routed_nets_,
                 number_of_routed_nets_, top_tracks, bottom_tracks, tracks,
                 rectilinear_boundaries, dist, rtEmptySweep>>

\* The Result Route() returns.
Result ==
  [top_tracks |-> top_tracks, tracks |-> tracks,
   bottom_tracks |-> bottom_tracks]

\* RouteInTracks_ and Route return the Result.
RouteReturn ==
  /\ rtPc = "tracks"
  /\ ~(number_of_routed_nets_ < number_of_nets_)
  /\ rtPc' = "done"
  /\ rtResults' = Append(rtResults, Result)
  /\ UNCHANGED <<instance_, number_of_nets_, horizontal_constraint_graph_,
                 vertical_constraint_graph_,
                 inverted_vertical_constraint_graph_, routed_nets_,
                 number_of_routed_nets_, top_tracks, bottom_tracks, tracks,
                 rectilinear_boundaries, dist, rtEmptySweep>>

\* The calls of Route() on one Router.
MaxCalls == 2

\* The orders std::sort may leave a vector of the horizontal constraint
\* graph in: sorted by the start of the interval, equal starts in any
\* order.
SortedOrders(v) ==
  {w \in {[i \in 1..Len(v) |-> v[p[i]]] : p \in Permutations(1..Len(v))} :
     \A i \in 1..(Len(w) - 1) : w[i].interval[1] <= w[i + 1].interval[1]}

\* Route() is called on a Router whose Route() has returned: the
\* constraint graphs are constructed on top of what the members hold,
\* routed_nets_ and number_of_routed_nets_ are left as they are.
RouteAgain ==
  /\ rtPc = "done"
  /\ Len(rtResults) < MaxCalls
  /\ horizontal_constraint_graph_' \in
       SortedOrders(horizontal_constraint_graph_ \o
                      [n \in 1..number_of_nets_ |->
                         [interval |-> IntervalOfNet(instance_, n),
                          net_id |-> n]])
  /\ \E g \in {ConstructVcgFrom(instance_,
                   <<vertical_constraint_graph_,
                     inverted_vertical_constraint_graph_>>, 0)} :
       /\ vertical_constraint_graph_' = g[1]
       /\ inverted_vertical_constraint_graph_' = g[2]
  /\ top_tracks' = [i \in 1..(Len(instance_.top_boundaries) - 1) |-> <<>>]
  /\ dist' = Len(instance_.top_boundaries) - 1
  /\ rectilinear_boundaries' = <<>>
  /\ rtPc' = "top"
  /\ UNCHANGED <<instance_, number_of_nets_, routed_nets_,
                 number_of_routed_nets_, bottom_tracks, tracks, rtEmptySweep,
                 rtResults>>

(***************************************************************************)
(*                           P A T H   F I N D E R                         *)
(***************************************************************************)

\* Number of PMOS, and of NMOS, of the circuits.
NumPairs == 4

\* Number of nets the drains and sources are connected to.
NumDiffNets == 3

\* The MOS are numbered in the order of circuit_->mos, the nets in the order
\* in which a std::map keyed by std::shared_ptr<Net> walks them.
PMos == 1..NumPairs

NMos == (NumPairs + 1)..(2 * NumPairs)

DiffNets == 1..NumDiffNets

GateNet(g) == NumDiffNets + g

\* The net and the two MOS named "Dummy" that join two paths.
kDummyNet == NumDiffNets + NumPairs + 1

kDummyP == 2 * NumPairs + 1

kDummyN == 2 * NumPairs + 2

\* A further NMOS of a circuit.
kLoneN == 2 * NumPairs + 3

\* The gates of the PMOS and of the NMOS: all different; the first two MOS
\* of each type on one gate; a gate with two PMOS and one NMOS; a gate with
\* a PMOS and no NMOS.
GatePatterns ==
  {[p |-> [i \in 1..NumPairs |-> i], n |-> [i \in 1..NumPairs |-> i]],
   [p |-> [i \in 1..NumPairs |-> IF i <= 2 THEN 1 ELSE i - 1],
    n |-> [i \in 1..NumPairs |-> IF i <= 2 THEN 1 ELSE i - 1]],
   [p |-> [i \in 1..NumPairs |-> IF i <= 2 THEN 1 ELSE i - 1],
    n |-> [i \in 1..NumPairs |-> IF i = 1 THEN 1
                                 ELSE IF i <= 3 THEN 2 ELSE i - 1]],
   [p |-> [i \in 1..NumPairs |-> i],
    n |-> [i \in 1..NumPairs |-> IF i = 1 THEN 2 ELSE i]]}

\* <<drain, source>> of the NMOS: all alike, or every second one turned.
ProfilesN ==
  {[i \in 1..NumPairs |-> <<1, 2>>],
   [i \in 1..NumPairs |-> IF i % 2 = 1 THEN <<1, 2>> ELSE <<2, 1>>]}

\* <<drain, source>> of a PMOS: two different nets in increasing order,
\* the last net and the first, or the last net twice.
ProfilesP ==
  {pr \in DiffNets \X DiffNets : pr[1] < pr[2]}
    \cup {<<NumDiffNets, 1>>, <<NumDiffNets, NumDiffNets>>}

\* The circuits of the inputs.  The substrate is left out: the path finder
\* never reads it.
Circuits ==
  {[m \in PMos \cup NMos |->
      IF m \in PMos
      THEN [type |-> "P", drain |-> pd[m][1], gate |-> GateNet(g.p[m]),
            source |-> pd[m][2]]
      ELSE [type |-> "N", drain |-> nd[m - NumPairs][1],
            gate |-> GateNet(g.n[m - NumPairs]),
            source |-> nd[m - NumPairs][2]]] :
     pd \in [PMos -> ProfilesP], nd \in ProfilesN,
     g \in GatePatterns}

\* The circuits with one NMOS more, on a gate net that drives no other
\* MOS: every PMOS of the circuit has the same drain and source.
UnbalancedCircuits ==
  {[m \in PMos \cup NMos \cup {kLoneN} |->
      IF m = kLoneN
      THEN [type |-> "N", drain |-> 1, gate |-> GateNet(NumPairs + 2),
            source |-> 2]
      ELSE c[m]] :
     c \in {d \in Circuits : \A m \in PMos : d[m].drain = d[1].drain
                                              /\ d[m].source = d[1].source}}

\* <<drain, source>> of the NMOS of the circuits of islands: two different
\* nets, or a third net twice.
ProfilesOfIslands == {<<1, 2>>, <<NumDiffNets, NumDiffNets>>}

\* <<drain, source>> of the PMOS of the circuits of islands: the same, or
\* a net of each.
ProfilesOfIslandsP == ProfilesOfIslands \cup {<<2, NumDiffNets>>}

\* The circuits of islands: every MOS on a gate net of its pair, the PMOS
\* and the NMOS each with any of the profiles, so that vertices share no
\* net on the one side or on the other.
IslandCircuits ==
  {[m \in PMos \cup NMos |->
      IF m \in PMos
      THEN [type |-> "P", drain |-> pd[m][1], gate |-> GateNet(m),
            source |-> pd[m][2]]
      ELSE [type |-> "N", drain |-> nd[m][1], gate |-> GateNet(m - NumPairs),
            source |-> nd[m][2]]] :
     pd \in [PMos -> ProfilesOfIslandsP], nd \in [NMos -> ProfilesOfIslands]}

\* NetsOf(const Mos&)
NetsOfMos(m) == <<circuit_[m].drain, circuit_[m].gate, circuit_[m].source>>

\* IsNeighbor(const Mos&, const Mos&)
IsNeighborMos(a, b) ==
  \/ circuit_[a].drain = circuit_[b].drain
  \/ circuit_[a].source = circuit_[b].source
  \/ circuit_[a].drain = circuit_[b].source
  \/ circuit_[a].source = circuit_[b].drain

\* IsNeighbor(const Vertex&, const Vertex&)
IsNeighbor(a, b) == IsNeighborMos(a[1], b[1]) /\ IsNeighborMos(a[2], b[2])

\* FindEdgeToNeighbor(const Mos&, const Mos&)
FindEdgeToNeighborMos(a, b) ==
  IF ~IsNeighborMos(a, b) THEN Nil
  ELSE IF circuit_[a].drain = circuit_[b].drain
          \/ circuit_[a].drain = circuit_[b].source
  THEN circuit_[a].drain
  ELSE circuit_[a].source

\* FindEdgeToNeighbor(const Vertex&, const Vertex&)
FindEdgeToNeighbor(a, b) ==
  <<FindEdgeToNeighborMos(a[1], b[1]), FindEdgeToNeighborMos(a[2], b[2])>>

\* The MOS of a type on a gate net, in the order of circuit_->mos: an entry
\* of the map p_mos or n_mos of GroupVertices_.
MosOnGate(type, gate) ==
  SetToSeq({m \in DOMAIN circuit_ :
              circuit_[m].type = type /\ circuit_[m].gate = gate})

\* What remaining.erase(end()) does is undefined: the process dies, the
\* last element of the vector goes (the vector is cut by one), or nothing
\* happens.
EraseOutcomes == {"abort", "pop_back", "no_effect"}

\* remaining.erase(std::find_if(remaining.begin(), remaining.end(), ...))
EraseFound(remaining, m, outcome) ==
  IF Find(remaining, m) < Len(remaining)
  THEN [list |-> Erase(remaining, Find(remaining, m)), ok |-> TRUE]
  ELSE IF outcome = "pop_back" /\ remaining # <<>>
  THEN [list |-> SubSeq(remaining, 1, Len(remaining) - 1), ok |-> TRUE]
  ELSE IF outcome = "no_effect"
  THEN [list |-> remaining, ok |-> TRUE]
  ELSE [list |-> remaining, ok |-> FALSE]

\* The inner loop of GroupVertices_: the first PMOS of the gate that has
\* the drain or the source of n; Nil when the loop ends without a break.
FirstConnected(ps, n) ==
  IF \E k \in 1..Len(ps) : \/ circuit_[ps[k]].drain = circuit_[n].drain
                           \/ circuit_[ps[k]].source = circuit_[n].source
  THEN ps[CHOOSE k \in 1..Len(ps) :
            /\ \/ circuit_[ps[k]].drain = circuit_[n].drain
               \/ circuit_[ps[k]].source = circuit_[n].source
            /\ \A j \in 1..(k - 1) :
                 /\ circuit_[ps[j]].drain # circuit_[n].drain
                 /\ circuit_[ps[j]].source # circuit_[n].source]
  ELSE Nil

\* The loop of GroupVertices_ over the NMOS of a gate, from the i-th on.
\* g holds vertices_, remaining_p_mos, remaining_n_mos and whether the
\* process is still alive.
RECURSIVE PairConnected(_, _, _, _, _)
PairConnected(ps, ns, i, g, outcome) ==
  IF i > Len(ns) \/ ~g.ok THEN g
  ELSE LET n == ns[i]
           p == FirstConnected(ps, n)
           ep == EraseFound(g.remaining_p_mos, p, outcome)
           en == EraseFound(g.remaining_n_mos, n, outcome)
       IN  IF p = Nil THEN PairConnected(ps, ns, i + 1, g, outcome)
           ELSE PairConnected(ps, ns, i + 1,
                  [vertices |-> Append(g.vertices, <<p, n>>),
                   remaining_p_mos |-> ep.list,
                   remaining_n_mos |-> en.list,
                   ok |-> ep.ok /\ en.ok], outcome)

\* The body of the loop of GroupVertices_ for one gate; acc holds vertices_
\* and whether every assertion held so far.
GroupGate(gate, acc, outcome) ==
  LET ps == MosOnGate("P", gate)
      ns == MosOnGate("N", gate)
      g  == PairConnected(ps, ns, 1,
              [vertices |-> acc.vertices, remaining_p_mos |-> ps,
               remaining_n_mos |-> ns, ok |-> TRUE], outcome)
  IN  IF ns = <<>> THEN [acc EXCEPT !.ok = FALSE]
      ELSE IF Len(ps) = 1
      THEN (IF Len(ns) # 1 THEN [acc EXCEPT !.ok = FALSE]
            ELSE [acc EXCEPT !.vertices = Append(@, <<ps[1], ns[1]>>)])
      ELSE IF ~g.ok \/ Len(g.remaining_n_mos) # Len(g.remaining_p_mos)
      THEN [vertices |-> g.vertices, ok |-> FALSE]
      ELSE [vertices |-> g.vertices \o
                           [i \in 1..Len(g.remaining_n_mos) |->
                              <<g.remaining_p_mos[i], g.remaining_n_mos[i]>>],
            ok |-> TRUE]

\* The loop of GroupVertices_ over the gates of the PMOS, from the i-th on.
RECURSIVE GroupGates(_, _, _, _)
GroupGates(gates, i, acc, outcome) ==
  IF i > Len(gates) \/ ~acc.ok THEN acc
  ELSE GroupGates(gates, i + 1, GroupGate(gates[i], acc, outcome), outcome)

\* A PathFragment without a next; prev tells whether prev.lock() gives a
\* fragment (it is then the one before it in the path).
Fragment(v, prev) ==
  [vertex |-> v, prev |-> prev, edge_to_next |-> <<Nil, Nil>>]

\* FindFreeNets without the connection to the previous fragment taken off.
NetCountIgnoringPrev(pth, i, s, net) ==
  LET f == pth[i]
      m == f.vertex[s]
  IN  Cardinality({k \in 1..3 : NetsOfMos(m)[k] = net})
      - (IF circuit_[m].gate = net THEN 1 ELSE 0)
      - (IF i < Len(pth) /\ f.edge_to_next[s] = net THEN 1 ELSE 0)

\* The fragments of a path are kept in the order of the next pointers.
\* FindFreeNets(const PathFragment&) of the i-th fragment, for the MOS of
\* side s (1: PMOS, 2: NMOS).  The counts are std::size_t: a count taken
\* below zero wraps around and is not zero.
NetCount(pth, i, s, net) ==
  LET f == pth[i]
      m == f.vertex[s]
  IN  Cardinality({k \in 1..3 : NetsOfMos(m)[k] = net})
      - (IF circuit_[m].gate = net THEN 1 ELSE 0)
      - (IF i < Len(pth) /\ f.edge_to_next[s] = net THEN 1 ELSE 0)
      - (IF f.prev /\ pth[i - 1].edge_to_next[s] = net THEN 1 ELSE 0)

FreeNetsOfSide(pth, i, s) ==
  LET f == pth[i]
      keys == Range(NetsOfMos(f.vertex[s]))
                \cup (IF i < Len(pth) THEN {f.edge_to_next[s]} ELSE {})
                \cup (IF f.prev THEN {pth[i - 1].edge_to_next[s]} ELSE {})
  IN  SetToSeq({net \in keys : NetCount(pth, i, s, net) # 0})

FindFreeNets(pth, i) ==
  [p |-> FreeNetsOfSide(pth, i, 1), n |-> FreeNetsOfSide(pth, i, 2)]

\* The loops of Extend_ over the free nets: the first free net that is the
\* source or the drain of mos m; Nil (a null edge) if there is none.
FirstFreeNetOn(free_nets, m) ==
  IF \E k \in 1..Len(free_nets) :
       free_nets[k] \in {circuit_[m].source, circuit_[m].drain}
  THEN free_nets[CHOOSE k \in 1..Len(free_nets) :
         /\ free_nets[k] \in {circuit_[m].source, circuit_[m].drain}
         /\ \A j \in 1..(k - 1) :
              free_nets[j] \notin {circuit_[m].source, circuit_[m].drain}]
  ELSE Nil

\* The edge Extend_ finds from the i-th fragment to a neighbor.
EdgeTo(pth, i, neighbor) ==
  <<FirstFreeNetOn(FindFreeNets(pth, i).p, neighbor[1]),
    FirstFreeNetOn(FindFreeNets(pth, i).n, neighbor[2])>>

\* The index in the adjacency list of the i-th fragment of the first
\* neighbor that is still to visit and has an edge; 0 if there is none.
FirstExtension(pth, i, tv) ==
  LET nb == adjacency_list_[pth[i].vertex]
      Fits(k) == /\ nb[k] \in tv
                 /\ EdgeTo(pth, i, nb[k])[1] # Nil
                 /\ EdgeTo(pth, i, nb[k])[2] # Nil
  IN  IF \E k \in 1..Len(nb) : Fits(k)
      THEN CHOOSE k \in 1..Len(nb) : Fits(k) /\ \A j \in 1..(k - 1) : ~Fits(j)
      ELSE 0

\* Path::Path(const Path&) and Path::operator=: the deep copy walks the
\* next pointers from the head and gives every fragment but the first the
\* copy of the fragment before it as prev.
CopyOfPath(other) ==
  SubSeq([j \in 1..Len(other) |-> [other[j] EXCEPT !.prev = (j > 1)]],
         1, Len(other))

\* PathFinder::Extend_ on the path it is handed as it stands: the extended
\* path and the vertex taken from to_visit, or found = FALSE for
\* std::nullopt.
ExtendInPlace(pth, tv) ==
  LET last == Len(pth)
      kt == FirstExtension(pth, last, tv)
      kh == FirstExtension(pth, 1, tv)
      nt == adjacency_list_[pth[last].vertex][kt]
      nh == adjacency_list_[pth[1].vertex][kh]
  IN  IF kt # 0
      THEN [found |-> TRUE, neighbor |-> nt,
            path |-> Append([pth EXCEPT ![last].edge_to_next =
                                           EdgeTo(pth, last, nt)],
                            Fragment(nt, TRUE))]
      ELSE IF kh # 0
      THEN [found |-> TRUE, neighbor |-> nh,
            path |-> <<[vertex |-> nh, prev |-> FALSE,
                        edge_to_next |-> EdgeTo(pth, 1, nh)]>>
                     \o [pth EXCEPT ![1].prev = TRUE]]
      ELSE [found |-> FALSE, neighbor |-> <<Nil, Nil>>, path |-> pth]

\* PathFinder::Extend_(Path path, ...): the path is taken by value, so the
\* function works on a deep copy of the argument.
Extend_(pth, tv) == ExtendInPlace(CopyOfPath(pth), tv)

\* The increasing sequence of the indices of a path that satisfy Test.
IndicesWhere(pth, Test(_)) ==
  SetToSeq({k \in 1..Len(pth) : Test(k)})

\* The first loop of Rotate_: for every fragment curr from the third on
\* whose vertex is a neighbor of the head, next of the head becomes curr
\* and prev of curr the head; the fragments between them are linked
\* backwards behind the head, head stays what it was and every
\* edge_to_next is left as it is.  The fragments between are owned by
\* new_head alone and go with it.
HeadRotations(pth) ==
  LET ks == IndicesWhere(pth,
              LAMBDA k : k >= 3 /\ IsNeighbor(pth[1].vertex, pth[k].vertex))
  IN  [x \in 1..Len(ks) |->
         <<pth[1]>> \o [SubSeq(pth, ks[x], Len(pth)) EXCEPT ![1].prev = TRUE]]

\* The fragments of the second loop of Rotate_: those, up to the last but
\* two, whose vertex is a neighbor of the tail.
TailRotationPoints(pth) ==
  IndicesWhere(pth,
    LAMBDA k : k <= Len(pth) - 2
               /\ IsNeighbor(pth[Len(pth)].vertex, pth[k].vertex))

\* The second loop of Rotate_ resets prev of the fragment after curr and
\* then stores through prev.lock() of that very fragment, a null pointer,
\* and again through a null next in the first turn of its reversing loop.
\* The stores are undefined: the process dies, or they are skipped.  With
\* the stores skipped: the fragment after curr becomes the tail, loses its
\* prev and its next, and the fragments behind it are linked backwards and
\* go with the local prev.
TailRotations(pth) ==
  LET js == TailRotationPoints(pth)
  IN  [x \in 1..Len(js) |->
         [SubSeq(pth, 1, js[x] + 1) EXCEPT ![js[x] + 1].prev = FALSE]]

\* Whether Rotate_(path) runs into the null stores.
RotateIsUndefined(pth) == Len(pth) >= 3 /\ TailRotationPoints(pth) # <<>>

\* PathFinder::Rotate_, where it returns.
Rotate_(pth) ==
  IF Len(pth) < 3 THEN <<>> ELSE HeadRotations(pth) \o TailRotations(pth)

\* The loop of FindHamiltonPaths_ over the rotated paths: the index of the
\* first one Extend_ extends; 0 if there is none.
FirstExtensible(rotated_paths, tv) ==
  IF \E x \in 1..Len(rotated_paths) : Extend_(rotated_paths[x], tv).found
  THEN CHOOSE x \in 1..Len(rotated_paths) :
         /\ Extend_(rotated_paths[x], tv).found
         /\ \A y \in 1..(x - 1) : ~Extend_(rotated_paths[y], tv).found
  ELSE 0

\* The two dummy fragments ConnectHamiltonPathOfSubgraphsWithDummy puts
\* between the accumulated path and the next path, and the edges around
\* them.  ok is the assertion on the free nets of the ending vertex.
RECURSIVE JoinFrom(_, _, _)
JoinFrom(ps, i, acc) ==
  IF i > Len(ps) \/ ~acc.ok THEN acc
  ELSE LET ending_free_net == FindFreeNets(acc.path, Len(acc.path))
           starting_free_net == FindFreeNets(ps[i], 1)
       IN  IF Len(ending_free_net.p) < 1 \/ Len(ending_free_net.n) < 1
              \/ Len(starting_free_net.p) < 1 \/ Len(starting_free_net.n) < 1
           THEN [acc EXCEPT !.ok = FALSE]
           ELSE JoinFrom(ps, i + 1,
                  [ok |-> TRUE,
                   path |->
                     [acc.path EXCEPT ![Len(acc.path)].edge_to_next =
                        <<ending_free_net.p[1], ending_free_net.n[1]>>]
                     \o <<[vertex |-> <<kDummyP, kDummyN>>, prev |-> TRUE,
                           edge_to_next |-> <<kDummyNet, kDummyNet>>],
                          [vertex |-> <<kDummyP, kDummyN>>, prev |-> TRUE,
                           edge_to_next |-> <<starting_free_net.p[1],
                                              starting_free_net.n[1]>>]>>
                     \o [ps[i] EXCEPT ![1].prev = TRUE]])

ConnectHamiltonPathOfSubgraphsWithDummy(ps) ==
  JoinFrom(ps, 2, [ok |-> TRUE, path |-> ps[1]])

\* GetEdgesOf and GetEdgesWithGateExcludedOf: the edge emitted between the
\* i-th vertex of a path and the next one.
EmittedEdge(pth, i) == FindEdgeToNeighbor(pth[i].vertex, pth[i + 1].vertex)

\* The loops of FindFreeNetOfStartingVertex and FindFreeNetOfEndingVertex
\* for the MOS of side s of the end vertex v: the count of a net after the
\* gate and the connection to the neighbour (<<Nil, Nil>> on a path of one
\* vertex, where nothing is taken off) are removed.
EndNetCount(v, s, connection, net) ==
  Cardinality({k \in 1..3 : NetsOfMos(v[s])[k] = net})
  - (IF circuit_[v[s]].gate = net THEN 1 ELSE 0)
  - (IF connection[s] = net THEN 1 ELSE 0)

\* The first net of the map, in the order of its keys, whose count is 1;
\* null when there is none.
FirstFreeNetOfEnd(v, s, connection) ==
  LET free == {net \in Range(NetsOfMos(v[s])) :
                 EndNetCount(v, s, connection, net) = 1}
  IN  IF free = {} THEN Nil
      ELSE CHOOSE net \in free : \A other \in free : net <= other

\* FindFreeNetOfStartingVertex(const HamiltonPath&)
FindFreeNetOfStartingVertex(hp) ==
  LET connection == IF Len(hp) # 1 THEN FindEdgeToNeighbor(hp[1], hp[2])
                    ELSE <<Nil, Nil>>
  IN  <<FirstFreeNetOfEnd(hp[1], 1, connection),
        FirstFreeNetOfEnd(hp[1], 2, connection)>>

\* FindFreeNetOfEndingVertex(const HamiltonPath&)
FindFreeNetOfEndingVertex(hp) ==
  LET connection == IF Len(hp) # 1
                    THEN FindEdgeToNeighbor(hp[Len(hp)], hp[Len(hp) - 1])
                    ELSE <<Nil, Nil>>
  IN  <<FirstFreeNetOfEnd(hp[Len(hp)], 1, connection),
        FirstFreeNetOfEnd(hp[Len(hp)], 2, connection)>>

\* The gates of the two MOS of a vertex.
GatesOfVertex(v) == <<circuit_[v[1]].gate, circuit_[v[2]].gate>>

\* GetEdgesOf(const HamiltonPath&)
RECURSIVE EdgesFrom(_, _)
EdgesFrom(hp, i) ==
  IF i > Len(hp) THEN <<>>
  ELSE <<FindEdgeToNeighbor(hp[i - 1], hp[i]), GatesOfVertex(hp[i])>>
         \o EdgesFrom(hp, i + 1)

GetEdgesOf(hp) ==
  <<FindFreeNetOfStartingVertex(hp), GatesOfVertex(hp[1])>>
    \o EdgesFrom(hp, 2) \o <<FindFreeNetOfEndingVertex(hp)>>

\* GetEdgesWithGateExcludedOf(const HamiltonPath&)
GetEdgesWithGateExcludedOf(hp) ==
  <<FindFreeNetOfStartingVertex(hp)>>
    \o [i \in 1..(Len(hp) - 1) |-> FindEdgeToNeighbor(hp[i], hp[i + 1])]
    \o <<FindFreeNetOfEndingVertex(hp)>>

\* The design rule parameters of CalculateHpwl_.
kVerticalWidthIncrement == 27

kHorizontalExtension == 25

kGateSpacing == 34

kHorizontalGateWidth == 20

kUnitHorizontalWidth == kGateSpacing + kHorizontalGateWidth

\* Lengths are doubles with halves in them; the model keeps twice the
\* length.  The indices are std::size_t: sorted_idx.back() - front() below
\* zero wraps around to diff + 2^64, which wraps counts.
HorizontalWidthOf(sorted_idx_of_nets) ==
  LET back  == sorted_idx_of_nets[Len(sorted_idx_of_nets)]
      front == sorted_idx_of_nets[1]
  IN  [wraps |-> IF back < front THEN 1 ELSE 0,
       twice |-> 2 * kUnitHorizontalWidth * (back - front)]

IsCoveringTheEnd(sorted_idx_of_nets, order) ==
  IF sorted_idx_of_nets[Len(sorted_idx_of_nets)] = Len(order) - 1
  THEN 1 ELSE 0

IsCoveringTheStart(sorted_idx_of_nets) ==
  IF sorted_idx_of_nets[1] = 0 THEN 1 ELSE 0

\* idx_in_p (s = 1) and idx_in_n (s = 2) of a net: the indices, from 0, of
\* the entries of net_order that hold the net on side s, ascending.
IdxIn(order, s, net) ==
  SetToSeq({i \in 0..(Len(order) - 1) : At(order, i)[s] = net})

\* twice vertical_wire_length
VerticalWireLength(hp) ==
  2 * kVerticalWidthIncrement
    + circuit_[hp[1][1]].width + circuit_[hp[1][2]].width

\* The body of the loop of CalculateHpwl_ over the nets: what one net adds
\* to hpwl.
HpwlOfNet(order, net, vertical_wire_length) ==
  LET idx_in_p == IdxIn(order, 1, net)
      idx_in_n == IdxIn(order, 2, net)
      Adjusted(length, adjustment) ==
        [wraps |-> length.wraps,
         twice |-> length.twice
                     + (kHorizontalExtension - kGateSpacing) * adjustment]
      Crossing(idx) ==
        Adjusted([wraps |-> HorizontalWidthOf(idx).wraps,
                  twice |-> HorizontalWidthOf(idx).twice
                              + vertical_wire_length],
                 IsCoveringTheEnd(idx, order) + IsCoveringTheStart(idx))
      Flat(idx) ==
        Adjusted(HorizontalWidthOf(idx),
                 IsCoveringTheEnd(idx, order) + IsCoveringTheStart(idx))
  IN  IF Len(idx_in_p) = 1 /\ Len(idx_in_n) = 1
      THEN Crossing(<<Min(idx_in_p[1], idx_in_n[1]),
                      Max(idx_in_p[1], idx_in_n[1])>>)
      ELSE IF Len(idx_in_p) > 1 /\ Len(idx_in_n) = 1
      THEN Crossing(Append(idx_in_p, idx_in_n[1]))
      ELSE IF Len(idx_in_p) = 1 /\ Len(idx_in_n) > 1
      THEN Crossing(Append(idx_in_n, idx_in_p[1]))
      ELSE IF Len(idx_in_p) > 1 /\ Len(idx_in_n) > 1
      THEN Adjusted(
             [wraps |-> 0,
              twice |-> HorizontalWidthOf(idx_in_p).twice
                          + HorizontalWidthOf(idx_in_n).twice
                          + vertical_wire_length
                          + (IF idx_in_p[1] > idx_in_n[Len(idx_in_n)]
                             THEN 2 * kUnitHorizontalWidth
                                    * (idx_in_p[1] - idx_in_n[Len(idx_in_n)])
                             ELSE IF idx_in_n[1] > idx_in_p[Len(idx_in_p)]
                             THEN 2 * kUnitHorizontalWidth
                                    * (idx_in_n[1] - idx_in_p[Len(idx_in_p)])
                             ELSE 0)],
             IsCoveringTheEnd(idx_in_p, order) + IsCoveringTheStart(idx_in_p)
               + IsCoveringTheEnd(idx_in_n, order)
               + IsCoveringTheStart(idx_in_n))
      ELSE IF Len(idx_in_p) > 1 /\ idx_in_n = <<>>
      THEN Flat(idx_in_p)
      ELSE IF idx_in_p = <<>> /\ Len(idx_in_n) > 1
      THEN Flat(idx_in_n)
      ELSE [wraps |-> 0, twice |-> 0]

\* circuit_->nets
NetsOfCircuit == UNION {Range(NetsOfMos(m)) : m \in DOMAIN circuit_}

\* PathFinder::CalculateHpwl_: the sum over the nets, from the i-th on.
RECURSIVE HpwlFrom(_, _, _, _)
HpwlFrom(order, nets, i, vertical_wire_length) ==
  IF i > Len(nets) THEN [wraps |-> 0, twice |-> 0]
  ELSE LET one  == HpwlOfNet(order, nets[i], vertical_wire_length)
           rest == HpwlFrom(order, nets, i + 1, vertical_wire_length)
       IN  [wraps |-> one.wraps + rest.wraps,
            twice |-> one.twice + rest.twice]

PfInit ==
  /\ pfPc = "new"
  /\ circuit_ = <<>>
  /\ vertices_ = <<>>
  /\ adjacency_list_ = <<>>
  /\ to_visit = {}
  /\ path = <<>>
  /\ paths = <<>>
  /\ joined = <<>>
  /\ hamilton_path = <<>>
  /\ edges = <<>>
  /\ net_order = <<>>
  /\ hpwl = [wraps |-> 0, twice |-> 0]

\* The parser and PathFinder::PathFinder.
PfConstruct ==
  /\ pfPc = "new"
  /\ circuit_' \in Circuits \cup UnbalancedCircuits
  /\ pfPc' = "loaded"
  /\ UNCHANGED <<vertices_, adjacency_list_, to_visit, path, paths, joined, hpVars>>

\* The same for a circuit of islands.
PfConstructIslands ==
  /\ pfPc = "new"
  /\ circuit_' \in IslandCircuits
  /\ pfPc' = "loaded"
  /\ UNCHANGED <<vertices_, adjacency_list_, to_visit, path, paths, joined, hpVars>>

\* PathFinder::GroupVertices_
GroupVertices_ ==
  /\ pfPc = "loaded"
  /\ \E outcome \in EraseOutcomes :
       \E g \in {GroupGates(
                   SetToSeq({circuit_[m].gate : m \in PMos}), 1,
                   [vertices |-> <<>>, ok |-> TRUE], outcome)} :
         /\ vertices_' = g.vertices
         /\ pfPc' = IF g.ok THEN "grouped" ELSE "abort"
  /\ UNCHANGED <<circuit_, adjacency_list_, to_visit, path, paths, joined, hpVars>>

\* PathFinder::BuildGraph_ and the first statements of FindHamiltonPaths_.
BuildGraph_ ==
  /\ pfPc = "grouped"
  /\ adjacency_list_' =
       [v \in Range(vertices_) |->
          SelectSeq(vertices_, LAMBDA w : w # v /\ IsNeighbor(v, w))]
  /\ to_visit' = Range(vertices_)
  /\ pfPc' = "paths"
  /\ UNCHANGED <<circuit_, vertices_, path, paths, joined, hpVars>>

\* The head of the outer loop of FindHamiltonPaths_: a path of one vertex,
\* *to_visit.begin(), the least in the order of the pointers.
StartPath ==
  /\ pfPc = "paths"
  /\ path = <<>>
  /\ \E v \in to_visit :
       /\ path' = <<Fragment(v, FALSE)>>
       /\ to_visit' = to_visit \ {v}
  /\ UNCHANGED <<pfPc, circuit_, vertices_, adjacency_list_, paths, joined,
                 hpVars>>

\* A turn of the inner loop in which Extend_ extends the path.
ExtendPath ==
  /\ pfPc = "paths"
  /\ path # <<>>
  /\ \E r \in {Extend_(path, to_visit)} :
       /\ r.found
       /\ path' = r.path
       /\ to_visit' = to_visit \ {r.neighbor}
  /\ UNCHANGED <<pfPc, circuit_, vertices_, adjacency_list_, paths, joined,
                 hpVars>>

\* A turn of the inner loop in which Extend_ fails and Rotate_ dies.
RotateAborts ==
  /\ pfPc = "paths"
  /\ path # <<>>
  /\ ~Extend_(path, to_visit).found
  /\ RotateIsUndefined(path)
  /\ pfPc' = "abort"
  /\ UNCHANGED <<circuit_, vertices_, adjacency_list_, to_visit, path, paths,
                 joined, hpVars>>

\* A turn of the inner loop in which Extend_ fails on the path and extends
\* one of the rotated paths: the first such is the new path.
RotateAndExtend ==
  /\ pfPc = "paths"
  /\ path # <<>>
  /\ ~Extend_(path, to_visit).found
  /\ \E x \in {FirstExtensible(Rotate_(path), to_visit)} :
       /\ x # 0
       /\ \E r \in {Extend_(Rotate_(path)[x], to_visit)} :
            /\ path' = r.path
            /\ to_visit' = to_visit \ {r.neighbor}
  /\ UNCHANGED <<pfPc, circuit_, vertices_, adjacency_list_, paths, joined,
                 hpVars>>

\* A turn of the inner loop in which neither the path nor a rotated path
\* is extended: the path is done.
PathDone ==
  /\ pfPc = "paths"
  /\ path # <<>>
  /\ ~Extend_(path, to_visit).found
  /\ FirstExtensible(Rotate_(path), to_visit) = 0
  /\ paths' = Append(paths, path)
  /\ path' = <<>>
  /\ UNCHANGED <<pfPc, circuit_, vertices_, adjacency_list_, to_visit, joined, hpVars>>

\* The end of FindPath: the paths are joined.
Connect ==
  /\ pfPc = "paths"
  /\ path = <<>>
  /\ to_visit = {}
  /\ \E r \in {ConnectHamiltonPathOfSubgraphsWithDummy(paths)} :
       /\ joined' = r.path
       /\ pfPc' = IF r.ok THEN "done" ELSE "abort"
  /\ UNCHANGED <<circuit_, vertices_, adjacency_list_, to_visit, path, paths, hpVars>>

\* Largest number of vertices of a Hamilton path handed to GetEdgesOf and
\* CalculateHpwl_.
MaxVertices == 3

\* The widths of the PMOS and of the NMOS of a circuit.
MosWidths == {<<3, 2>>}

\* The Hamilton paths of the inputs, each with its circuit: 1 to
\* MaxVertices vertices, the i-th the PMOS i with the NMOS NumPairs + i on
\* the gate net of its own, every vertex a neighbour of the next, no
\* dummy.  The drain and the source of a PMOS are any of the nets, those
\* of an NMOS one of ProfilesP.
HamiltonPathsOf(k) ==
  [circuit : {[m \in (1..k) \cup ((NumPairs + 1)..(NumPairs + k)) |->
                 IF m <= k
                 THEN [type |-> "P", drain |-> pd[m][1], gate |-> GateNet(m),
                       source |-> pd[m][2], width |-> w[1]]
                 ELSE [type |-> "N", drain |-> nd[m - NumPairs][1],
                       gate |-> GateNet(m - NumPairs),
                       source |-> nd[m - NumPairs][2], width |-> w[2]]] :
                pd \in [1..k -> DiffNets \X DiffNets],
                nd \in [1..k -> ProfilesP],
                w \in MosWidths},
   path : {[i \in 1..k |-> <<i, NumPairs + i>>]}]

\* The path finder has found a Hamilton path of the circuit.
HpConstruct ==
  /\ pfPc = "new"
  /\ \E k \in 1..MaxVertices :
       \E input \in HamiltonPathsOf(k) :
         /\ circuit_' = input.circuit
         /\ hamilton_path' = input.path
         /\ \A i \in 1..(k - 1) :
              IsNeighbor(input.path[i], input.path[i + 1])'
  /\ pfPc' = "path"
  /\ UNCHANGED <<vertices_, adjacency_list_, to_visit, path, paths, joined,
                 edges, net_order, hpwl>>

\* The edges of the path are taken: GetEdgesOf.
HpGetEdges ==
  /\ pfPc = "path"
  /\ edges' = GetEdgesOf(hamilton_path)
  /\ pfPc' = "edges"
  /\ UNCHANGED <<circuit_, vertices_, adjacency_list_, to_visit, path, paths,
                 joined, hamilton_path, net_order, hpwl>>

\* PathFinder::CalculateHpwl_
CalculateHpwl_ ==
  /\ pfPc = "edges"
  /\ \E order \in {GetEdgesWithGateExcludedOf(hamilton_path)} :
       /\ net_order' = order
       /\ hpwl' = HpwlFrom(order, SetToSeq(NetsOfCircuit), 1,
                           VerticalWireLength(hamilton_path))
  /\ pfPc' = "hpwl"
  /\ UNCHANGED <<circuit_, vertices_, adjacency_list_, to_visit, path, paths,
                 joined, hamilton_path, edges>>

vars == <<fpVars, anVars, fmVars, rtVars, pfVars>>

Init == FpInit /\ AnInit /\ FmInit /\ RtInit /\ PfInit

NextFloorplan ==
  \/ Construct /\ UNCHANGED <<anVars, fmVars, rtVars, pfVars>>
  \/ PerturbBlockSwap /\ UNCHANGED <<anVars, fmVars, rtVars, pfVars>>
  \/ PerturbChainInvert /\ UNCHANGED <<anVars, fmVars, rtVars, pfVars>>
  \/ PerturbBlockAndCutSwap /\ UNCHANGED <<anVars, fmVars, rtVars, pfVars>>
  \/ Restore /\ UNCHANGED <<anVars, fmVars, rtVars, pfVars>>

SpecFloorplan == Init /\ [][NextFloorplan]_vars

\* The tree with the walk that places the blocks.
NextPlacement ==
  \/ NextFloorplan
  \/ UpdateCoordinateOfBlocks /\ UNCHANGED <<anVars, fmVars, rtVars, pfVars>>

SpecPlacement == Init /\ [][NextPlacement]_vars

NextAnnealing ==
  \/ Construct /\ UNCHANGED <<anVars, fmVars, rtVars, pfVars>>
  \/ AnnealBegin /\ UNCHANGED <<fmVars, rtVars, pfVars>>
  \/ SearchPerturb /\ UNCHANGED <<fmVars, rtVars, pfVars>>
  \/ SearchFound /\ UNCHANGED <<fmVars, rtVars, pfVars>>
  \/ MovePerturb /\ UNCHANGED <<fmVars, rtVars, pfVars>>
  \/ MoveAccept /\ UNCHANGED <<fmVars, rtVars, pfVars>>
  \/ MoveReject /\ UNCHANGED <<fmVars, rtVars, pfVars>>
  \/ MoveRejectAssertFails /\ UNCHANGED <<fmVars, rtVars, pfVars>>
  \/ CoolDown /\ UNCHANGED <<fmVars, rtVars, pfVars>>
  \/ Rebuild /\ UNCHANGED <<fmVars, rtVars, pfVars>>
  \/ RebuildAssertFails /\ UNCHANGED <<fmVars, rtVars, pfVars>>

SpecAnnealing == Init /\ [][NextAnnealing]_vars

\* A draw of the initial search that lands on a compliant floorplan.
SearchHit ==
  /\ SearchPerturb
  /\ IsComplyWithAspectRatioConstraint(Width', Height', constraint')
  /\ UNCHANGED <<fmVars, rtVars, pfVars>>

\* The driver runs on while it can, and the random draws are fair: a draw
\* that is possible again and again is made at some time.
SpecAnnealingFair ==
  SpecAnnealing /\ WF_vars(NextAnnealing) /\ SF_vars(SearchHit)

\* The annealer on the inputs of two blocks.  Every composite size of two
\* blocks is the size of the root, which every move updates, so the
\* assertions after Restore and after the rebuild cannot fail.
NextAnnealingTwoBlocks ==
  \/ ConstructTwoBlocks /\ UNCHANGED <<anVars, fmVars, rtVars, pfVars>>
  \/ AnnealBeginSlowly /\ UNCHANGED <<fmVars, rtVars, pfVars>>
  \/ SearchPerturb /\ UNCHANGED <<fmVars, rtVars, pfVars>>
  \/ SearchFound /\ UNCHANGED <<fmVars, rtVars, pfVars>>
  \/ MovePerturb /\ UNCHANGED <<fmVars, rtVars, pfVars>>
  \/ MoveAccept /\ UNCHANGED <<fmVars, rtVars, pfVars>>
  \/ MoveReject /\ UNCHANGED <<fmVars, rtVars, pfVars>>
  \/ CoolDown /\ UNCHANGED <<fmVars, rtVars, pfVars>>
  \/ Rebuild /\ UNCHANGED <<fmVars, rtVars, pfVars>>

SpecAnnealingTwoBlocks == Init /\ [][NextAnnealingTwoBlocks]_vars

SpecAnnealingTwoBlocksFair ==
  SpecAnnealingTwoBlocks /\ WF_vars(NextAnnealingTwoBlocks)
    /\ SF_vars(SearchHit)

NextPartition ==
  \/ FmConstruct /\ UNCHANGED <<fpVars, anVars, rtVars, pfVars>>
  \/ InitPartition /\ UNCHANGED <<fpVars, anVars, rtVars, pfVars>>
  \/ BeginPass /\ UNCHANGED <<fpVars, anVars, rtVars, pfVars>>
  \/ MoveCell /\ UNCHANGED <<fpVars, anVars, rtVars, pfVars>>
  \/ EndPass /\ UNCHANGED <<fpVars, anVars, rtVars, pfVars>>

SpecPartition == Init /\ [][NextPartition]_vars

\* Partition() runs on until it returns.
SpecPartitionFair == SpecPartition /\ WF_vars(NextPartition)

\* The partitioner on the inputs with the balance factor 0.25.
NextPartitionFractional ==
  \/ FmConstructFractional /\ UNCHANGED <<fpVars, anVars, rtVars, pfVars>>
  \/ InitPartition /\ UNCHANGED <<fpVars, anVars, rtVars, pfVars>>
  \/ BeginPass /\ UNCHANGED <<fpVars, anVars, rtVars, pfVars>>
  \/ MoveCell /\ UNCHANGED <<fpVars, anVars, rtVars, pfVars>>
  \/ EndPass /\ UNCHANGED <<fpVars, anVars, rtVars, pfVars>>

SpecPartitionFractional == Init /\ [][NextPartitionFractional]_vars

NextRouter ==
  \/ RtConstruct /\ UNCHANGED <<fpVars, anVars, fmVars, pfVars>>
  \/ RouteBegin /\ UNCHANGED <<fpVars, anVars, fmVars, pfVars>>
  \/ RouteTopStep /\ UNCHANGED <<fpVars, anVars, fmVars, pfVars>>
  \/ RouteTopReturn /\ UNCHANGED <<fpVars, anVars, fmVars, pfVars>>
  \/ RouteBottomStep /\ UNCHANGED <<fpVars, anVars, fmVars, pfVars>>
  \/ RouteBottomReturn /\ UNCHANGED <<fpVars, anVars, fmVars, pfVars>>
  \/ RouteTrack /\ UNCHANGED <<fpVars, anVars, fmVars, pfVars>>
  \/ RouteTrackAssertFails /\ UNCHANGED <<fpVars, anVars, fmVars, pfVars>>
  \/ RouteReturn /\ UNCHANGED <<fpVars, anVars, fmVars, pfVars>>

SpecRouter == Init /\ [][NextRouter]_vars

NextRouterAgain ==
  \/ NextRouter
  \/ RouteAgain /\ UNCHANGED <<fpVars, anVars, fmVars, pfVars>>

SpecRouterAgain == Init /\ [][NextRouterAgain]_vars

NextRouterWide ==
  \/ RtConstructWide /\ UNCHANGED <<fpVars, anVars, fmVars, pfVars>>
  \/ RouteBegin /\ UNCHANGED <<fpVars, anVars, fmVars, pfVars>>
  \/ RouteTopStep /\ UNCHANGED <<fpVars, anVars, fmVars, pfVars>>
  \/ RouteTopReturn /\ UNCHANGED <<fpVars, anVars, fmVars, pfVars>>
  \/ RouteBottomStep /\ UNCHANGED <<fpVars, anVars, fmVars, pfVars>>
  \/ RouteBottomReturn /\ UNCHANGED <<fpVars, anVars, fmVars, pfVars>>
  \/ RouteTrack /\ UNCHANGED <<fpVars, anVars, fmVars, pfVars>>
  \/ RouteTrackAssertFails /\ UNCHANGED <<fpVars, anVars, fmVars, pfVars>>
  \/ RouteReturn /\ UNCHANGED <<fpVars, anVars, fmVars, pfVars>>

SpecRouterWide == Init /\ [][NextRouterWide]_vars

\* RouteInTracks_ is not left half way: its loop keeps running until it
\* returns.
SpecRouterWideFair ==
  SpecRouterWide
    /\ WF_vars((RouteTrack \/ RouteTrackAssertFails \/ RouteReturn)
                 /\ UNCHANGED <<fpVars, anVars, fmVars, pfVars>>)

NextPathFinder ==
  \/ PfConstruct /\ UNCHANGED <<fpVars, anVars, fmVars, rtVars>>
  \/ GroupVertices_ /\ UNCHANGED <<fpVars, anVars, fmVars, rtVars>>
  \/ BuildGraph_ /\ UNCHANGED <<fpVars, anVars, fmVars, rtVars>>
  \/ StartPath /\ UNCHANGED <<fpVars, anVars, fmVars, rtVars>>
  \/ ExtendPath /\ UNCHANGED <<fpVars, anVars, fmVars, rtVars>>
  \/ RotateAborts /\ UNCHANGED <<fpVars, anVars, fmVars, rtVars>>
  \/ RotateAndExtend /\ UNCHANGED <<fpVars, anVars, fmVars, rtVars>>
  \/ PathDone /\ UNCHANGED <<fpVars, anVars, fmVars, rtVars>>
  \/ Connect /\ UNCHANGED <<fpVars, anVars, fmVars, rtVars>>

SpecPathFinder == Init /\ [][NextPathFinder]_vars

NextPathFinderIslands ==
  \/ PfConstructIslands /\ UNCHANGED <<fpVars, anVars, fmVars, rtVars>>
  \/ GroupVertices_ /\ UNCHANGED <<fpVars, anVars, fmVars, rtVars>>
  \/ BuildGraph_ /\ UNCHANGED <<fpVars, anVars, fmVars, rtVars>>
  \/ StartPath /\ UNCHANGED <<fpVars, anVars, fmVars, rtVars>>
  \/ ExtendPath /\ UNCHANGED <<fpVars, anVars, fmVars, rtVars>>
  \/ RotateAborts /\ UNCHANGED <<fpVars, anVars, fmVars, rtVars>>
  \/ RotateAndExtend /\ UNCHANGED <<fpVars, anVars, fmVars, rtVars>>
  \/ PathDone /\ UNCHANGED <<fpVars, anVars, fmVars, rtVars>>
  \/ Connect /\ UNCHANGED <<fpVars, anVars, fmVars, rtVars>>

SpecPathFinderIslands == Init /\ [][NextPathFinderIslands]_vars

NextHpwl ==
  \/ HpConstruct /\ UNCHANGED <<fpVars, anVars, fmVars, rtVars>>
  \/ HpGetEdges /\ UNCHANGED <<fpVars, anVars, fmVars, rtVars>>
  \/ CalculateHpwl_ /\ UNCHANGED <<fpVars, anVars, fmVars, rtVars>>

SpecHpwl == Init /\ [][NextHpwl]_vars

(***************************************************************************)
(*                    F L O O R P L A N   P R O P E R T I E S              *)
(***************************************************************************)

\* C1: a Perturb followed at once by Restore puts the Polish expression,
\* the slicing tree (shape, cut types, and the width and height of every
\* node) and the set of adjacent cut and block pairs back to the values
\* they had before that Perturb.
RestoreUndoesPerturb == fpLast = "restore" => FloorplanView = fpBefore

\* The number of cuts and of blocks among the first k elements.
CutsUpTo(expr, k) == Cardinality({i \in 1..k : IsCut(expr[i])})

BlocksUpTo(expr, k) == Cardinality({i \in 1..k : IsBlock(expr[i])})

\* C10: after any sequence of Perturb and Restore the Polish expression
\* has 2n-1 elements and every prefix of it holds fewer cuts than blocks
\* (the balloting property).
BallotingHolds ==
  fpPc = "ready" =>
    /\ Len(polish_expr_) = 2 * number_of_blocks - 1
    /\ \A k \in 1..Len(polish_expr_) :
         CutsUpTo(polish_expr_, k) < BlocksUpTo(polish_expr_, k)

\* C10, its case: a block and cut swap has just moved a cut to the right,
\* next to another cut, and some prefix holds only one block more than cuts.
BallotingAfterSwap ==
  /\ fpPc = "ready"
  /\ prev_move_.kind_of_move = kBlockAndCutSwap
  /\ \E i \in 1..(Len(polish_expr_) - 1) :
       IsCut(polish_expr_[i]) /\ IsCut(polish_expr_[i + 1])
  /\ \E k \in 1..(Len(polish_expr_) - 1) :
       CutsUpTo(polish_expr_, k) + 1 = BlocksUpTo(polish_expr_, k)

\* C11: after construction and after any sequence of Perturb and Restore
\* the Polish expression holds no cut that is immediately followed by the
\* same cut.
NoRepeatedCut ==
  fpPc = "ready" =>
    \A i \in 1..(Len(polish_expr_) - 1) :
      ~(/\ IsCut(polish_expr_[i])
        /\ IsCut(polish_expr_[i + 1])
        /\ polish_expr_[i].cut = polish_expr_[i + 1].cut)

\* The cut nodes of the tree: the nodes BuildTreeFromPolishExpr_ makes
\* for the cuts of the expression.
CutNodes == {polish_expr_[i].node : i \in {k \in 1..Len(polish_expr_) :
                                              IsCut(polish_expr_[k])}}

\* The width and the height the recursive definition gives a cut node
\* from the stored sizes of its two children.
WidthByDefinition(c) ==
  IF nodes[c].cut_ = kV
  THEN nodes[nodes[c].left].width + nodes[nodes[c].right].width
  ELSE IF nodes[nodes[c].left].width >= nodes[nodes[c].right].width
       THEN nodes[nodes[c].left].width ELSE nodes[nodes[c].right].width

HeightByDefinition(c) ==
  IF nodes[c].cut_ = kH
  THEN nodes[nodes[c].left].height + nodes[nodes[c].right].height
  ELSE IF nodes[nodes[c].left].height >= nodes[nodes[c].right].height
       THEN nodes[nodes[c].left].height ELSE nodes[nodes[c].right].height

\* C12: after every Perturb and every Restore the stored width and height
\* of every cut node agree with the recursive definition over its
\* children, up to the root.
SizesAgreeWithDefinition ==
  fpPc = "ready" =>
    \A c \in CutNodes :
      /\ nodes[c].width = WidthByDefinition(c)
      /\ nodes[c].height = HeightByDefinition(c)

(***************************************************************************)
(*                   A N N E A L I N G   P R O P E R T I E S               *)
(***************************************************************************)

\* C13: once the initial search has found a compliant floorplan, the
\* current floorplan satisfies lower_bound < W / H < upper_bound after
\* every iteration of the annealing loop; a perturbation that violates the
\* constraint is never accepted, and a compliant perturbation of cost at
\* most 0 is always accepted.
AspectRatioKept ==
  /\ anPc \in {"moves", "rebuild"} =>
       IsComplyWithAspectRatioConstraint(Width, Height, constraint)
  /\ anJudged.accepted => anJudged.comply
  /\ (anJudged.comply /\ anJudged.cost <= 0) => anJudged.accepted

\* The area of the floorplan a snapshot is the expression of.
AreaOfSnapshot(snap) ==
  LET built == BuildTreeFromPolishExpr_(ExprOfSnapshot(snap))
  IN  built.nodes[built.root].width * built.nodes[built.root].height

\* C14: the snapshot is always the expression of a floorplan whose area is
\* the best area min_area, and after RebuildFromSnapshot the area of the
\* tree is min_area and the tree meets the aspect ratio constraint.
SnapshotHasBestArea ==
  /\ anPc \in {"moves", "judge", "rebuild"} =>
       AreaOfSnapshot(snapshot) = min_area
  /\ anPc = "done" =>
       /\ Width * Height = min_area
       /\ IsComplyWithAspectRatioConstraint(Width, Height, constraint)

\* C16: SimulateAnnealing never stalls: for every instance and every
\* aspect ratio constraint the driver, the initial search and then the
\* temperature loop, comes to its end under fair random choices.
AnnealingTerminates == <>(anPc \in {"done", "abort"})

(***************************************************************************)
(*                  P A R T I T I O N E R   P R O P E R T I E S            *)
(***************************************************************************)

\* The number of cells of the net in the block of the cell (F) and in the
\* other block (T), read from the distribution of the net.
FromCount(c, n) ==
  IF cell_arr_[c].block_tag = kBlockA THEN distribution[n][1]
  ELSE distribution[n][2]

ToCount(c, n) ==
  IF cell_arr_[c].block_tag = kBlockA THEN distribution[n][2]
  ELSE distribution[n][1]

RecomputedGain(c) ==
  Cardinality({i \in 1..Len(NetsOf(c)) : FromCount(c, NetsOf(c)[i]) = 1})
  - Cardinality({i \in 1..Len(NetsOf(c)) : ToCount(c, NetsOf(c)[i]) = 0})

FreeCells == {c \in Cells : ~cell_arr_[c].is_locked_}

\* C2: at every move boundary inside a pass the stored gain of every free
\* cell equals the gain recomputed from the net distributions and the
\* block tags, lies between -|nets(c)| and |nets(c)|, and its bucket index
\* gain + pmax lies inside the bucket array.
GainsAreCurrent ==
  fmPc = "pass" =>
    \A c \in FreeCells :
      /\ cell_arr_[c].gain = RecomputedGain(c)
      /\ -NumOfPins(c) <= cell_arr_[c].gain
      /\ cell_arr_[c].gain <= NumOfPins(c)
      /\ \A t \in Tags :
           ToIndex(bucket_[t], cell_arr_[c].gain) \in DOMAIN bucket_[t].list

\* C2, its case: cells have been moved in the pass, and a free cell on
\* MaxNets nets has been brought down to its smallest gain.
GainsAtTheExtremes ==
  /\ fmPc = "pass"
  /\ Len(history_) >= 1
  /\ \E c \in FreeCells :
       /\ NumOfPins(c) = MaxNets
       /\ cell_arr_[c].gain = -NumOfPins(c)

\* The cells linked from a head, in order, following next.
RECURSIVE ChainFrom(_, _)
ChainFrom(c, fuel) ==
  IF c = Nil \/ fuel = 0 THEN <<>>
  ELSE <<c>> \o ChainFrom(cell_arr_[c].next, fuel - 1)

LinkedIn(t, i) == ChainFrom(bucket_[t].list[i], NumCells + 1)

\* Where a cell is linked: the bucket, the slot and the place in the list.
LinksOf(c) ==
  {o \in Tags \X (0..(2 * MaxNets)) \X (1..(NumCells + 1)) :
     /\ o[2] \in DOMAIN bucket_[o[1]].list
     /\ o[3] <= Len(LinkedIn(o[1], o[2]))
     /\ LinkedIn(o[1], o[2])[o[3]] = c}

\* C3: at every move boundary inside a pass a locked cell is linked in
\* neither bucket; a free cell is linked exactly once, in the bucket of
\* its block at the slot of its gain; and a bucket of size > 0 has a
\* non-empty slot at max_gain and only empty slots above it.
BucketsAreConsistent ==
  fmPc = "pass" =>
    /\ \A c \in Cells \ FreeCells : LinksOf(c) = {}
    /\ \A c \in FreeCells :
         /\ Cardinality(LinksOf(c)) = 1
         /\ \A o \in LinksOf(c) :
              /\ o[1] = cell_arr_[c].block_tag
              /\ o[2] = ToIndex(bucket_[o[1]], cell_arr_[c].gain)
    /\ \A t \in Tags :
         bucket_[t].size > 0 =>
           /\ ToIndex(bucket_[t], bucket_[t].max_gain) \in DOMAIN bucket_[t].list
           /\ bucket_[t].list[ToIndex(bucket_[t], bucket_[t].max_gain)] # Nil
           /\ \A i \in DOMAIN bucket_[t].list :
                i > ToIndex(bucket_[t], bucket_[t].max_gain) =>
                  bucket_[t].list[i] = Nil

\* C3, its case: a cell is locked, two free cells share one slot, and a
\* removal has lowered the max_gain of a bucket that is not empty.
BucketsInUse ==
  /\ fmPc = "pass"
  /\ Cells \ FreeCells # {}
  /\ \E t \in Tags : \E i \in DOMAIN bucket_[t].list :
       Len(LinkedIn(t, i)) >= 2
  /\ \E t \in Tags :
       /\ bucket_[t].size > 0
       /\ bucket_[t].max_gain < bucket_[t].pmax
       /\ \E k \in 1..Len(history_) :
            /\ fmTagsBefore[history_[k].cell] = t
            /\ history_[k].gain > bucket_[t].max_gain

\* C4: at every move boundary inside a pass and after every pass the sizes
\* of the two blocks add up (in the arithmetic of the size counters) to
\* the number of cells, and the two counts of every net add up to the
\* number of cells on the net.
CountsAddUp ==
  fmPc \in {"pass", "between", "done"} =>
    /\ block_size[kBlockA] + block_size[kBlockB] = NumCells
    /\ \A n \in Nets :
         distribution[n][1] + distribution[n][2] = Len(CellsOf(n))

\* C4, its case: a pass has ended and moves of it were reverted.
CountsAfterRevert ==
  /\ fmPc = "between"
  /\ fmPassGain >= 0
  /\ fmPassGain < NumCells - 1
  /\ \E c \in Cells : cell_arr_[c].block_tag # fmTagsBefore[c]

\* The number of cells whose tag is the block.
CellsIn(t) == Cardinality({c \in Cells : cell_arr_[c].block_tag = t})

\* C5: when Partition() returns, the sizes of both blocks are within the
\* balance bounds, whatever the initial assignment was.
BalancedOnReturn ==
  fmPc = "done" =>
    \A t \in Tags : BalanceLb <= CellsIn(t) /\ CellsIn(t) <= BalanceUb

\* The cut size of an assignment of block tags: the nets with a cell in
\* each block.
CutSizeOf(tags) ==
  Cardinality({n \in Nets : \E c, d \in Range(CellsOf(n)) :
                               tags[c] = kBlockA /\ tags[d] = kBlockB})

TagsNow == [c \in Cells |-> cell_arr_[c].block_tag]

\* C15: Partition() terminates for every netlist and every initial
\* assignment: every pass ends after at most one move per cell, every pass
\* but the last leaves a cut size strictly below the one it began with,
\* the loop goes on after a pass exactly when the pass found a prefix
\* (max_gain_idx is not -1), and Partition() returns at some time.
PartitionTerminates ==
  /\ [](Len(history_) <= NumCells)
  /\ [](fmPc = "between" => CutSizeOf(TagsNow) < CutSizeOf(fmTagsBefore))
  /\ [](fmPc = "between" => fmPassGain >= 0)
  /\ [](fmPc = "done" => fmPassGain = -1)
  /\ <>(fmPc = "done")

\* C15, witness: Partition() has returned after a pass that improved the
\* cut and a last pass that did not.
ReturnedAfterTwoPasses == fmPc = "done" /\ fmPasses >= 2

\* The sum of the gains of the first k moves of the history h.
RECURSIVE GainOfPrefix(_, _)
GainOfPrefix(h, k) == IF k = 0 THEN 0 ELSE GainOfPrefix(h, k - 1) + h[k].gain

\* No prefix of h has a positive cumulative gain and ends on a balanced move.
NoPositiveBalancedPrefix(h) ==
  \A k \in 1..Len(h) : ~(h[k].is_balanced /\ GainOfPrefix(h, k) > 0)

\* C17: when a pass ends with a history that has no prefix of positive
\* cumulative gain ending on a balanced move, every cell has the block tag
\* it had before the pass and Partition() returns.
PassWithoutGainIsReverted ==
  [][(fmPc = "pass" /\ fmPc' # "pass" /\ NoPositiveBalancedPrefix(history_))
       => (TagsNow' = fmTagsBefore /\ fmPc' = "done")]_vars

\* C17, witness: Partition() has returned after a single pass that moved
\* every cell of a netlist with a cut net and took every move back.
AllMovesTakenBack ==
  /\ fmPc = "done"
  /\ fmPasses = 1
  /\ CutSizeOf(TagsNow) > 0
  /\ TagsNow = fmTagsBefore

(***************************************************************************)
(*                      R O U T E R   P R O P E R T I E S                  *)
(***************************************************************************)

\* The net ids of the instance.
NetIds == 1..number_of_nets_

\* The edges of the vertical constraint graph: u -> v when u is on top
\* and v at the bottom of a column, both pins taken, u # v.
VcgEdge(u, v) ==
  \E c \in DOMAIN instance_.top_net_ids :
    /\ instance_.top_net_ids[c] = u
    /\ instance_.bottom_net_ids[c] = v
    /\ u # kEmptySlot /\ v # kEmptySlot /\ u # v

\* The nets reached from u over k edges at most.
RECURSIVE Below(_, _)
Below(u, k) ==
  IF k = 0 THEN {}
  ELSE LET S == {v \in NetIds : VcgEdge(u, v)}
       IN  S \cup UNION {Below(v, k - 1) : v \in S}

VcgAcyclic == \A u \in NetIds : u \notin Below(u, number_of_nets_)

\* The places of a net in a vector of tracks: the (1-based) index of the
\* track and the position in it.
PlacesIn(kind, tr, n) ==
  UNION {{<<kind, d, k>> : k \in {j \in 1..Len(tr[d]) : tr[d][j].net_id = n}} :
           d \in 1..Len(tr)}

PlacesOf(n) ==
  PlacesIn("top", top_tracks, n) \cup PlacesIn("channel", tracks, n)
    \cup PlacesIn("bottom", bottom_tracks, n)

\* C6: when Route() returns on an instance whose vertical constraint
\* graph is acyclic, every net id 1..N is placed exactly once over the
\* top-boundary, the in-channel and the bottom-boundary tracks.
EveryNetRoutedOnce ==
  (rtPc = "done" /\ VcgAcyclic) =>
    \A n \in NetIds : Cardinality(PlacesOf(n)) = 1

\* C6, its case: Route() has returned on an instance of MaxNetId nets
\* with a vertical constraint, one net placed in a top-boundary track and
\* one in a bottom-boundary track.
RoutedAcrossPhases ==
  /\ rtPc = "done"
  /\ VcgAcyclic
  /\ number_of_nets_ = MaxNetId
  /\ \E u, v \in NetIds : VcgEdge(u, v)
  /\ \E d \in 1..Len(top_tracks) : top_tracks[d] # <<>>
  /\ \E d \in 1..Len(bottom_tracks) : bottom_tracks[d] # <<>>

\* The height of a place: top-boundary tracks lie above the in-channel
\* tracks and those above the bottom-boundary tracks; of two top tracks
\* the outer is higher, of two in-channel tracks the one opened first, of
\* two bottom tracks the inner.
HeightOf(o) ==
  IF o[1] = "top" THEN o[2]
  ELSE IF o[1] = "channel" THEN -o[2]
  ELSE -(Len(tracks) + o[2])

\* C7: when Route() returns, for every edge u -> v of the vertical
\* constraint graph the track of u lies strictly above the track of v.
ParentsAboveChildren ==
  rtPc = "done" =>
    \A u, v \in NetIds :
      VcgEdge(u, v) =>
        \A o \in PlacesOf(u) : \A q \in PlacesOf(v) : HeightOf(o) > HeightOf(q)

\* C7, its case: Route() has returned with both ends of an edge in two
\* top-boundary tracks.
EdgeAcrossTopTracks ==
  /\ rtPc = "done"
  /\ \E u, v \in NetIds :
       /\ VcgEdge(u, v)
       /\ PlacesIn("top", top_tracks, u) # {}
       /\ PlacesIn("top", top_tracks, v) # {}

\* The intervals of a track lie one after the other.
Disjoint(track) ==
  \A k \in 1..(Len(track) - 1) :
    track[k + 1].interval[1] > track[k].interval[2]

\* C8: in every track, of the top boundary, in the channel and of the
\* bottom boundary, each interval starts strictly after the end of the
\* interval placed before it.
TracksAreDisjoint ==
  /\ \A d \in 1..Len(top_tracks) : Disjoint(top_tracks[d])
  /\ \A d \in 1..Len(tracks) : Disjoint(tracks[d])
  /\ \A d \in 1..Len(bottom_tracks) : Disjoint(bottom_tracks[d])

\* C8, its case: Route() has returned a top-boundary track that holds
\* two intervals.
TwoNetsOnATrack ==
  /\ rtPc = "done"
  /\ \E d \in 1..Len(top_tracks) : Len(top_tracks[d]) >= 2

\* C9: on a cyclic vertical constraint graph Route() notices the sweep of
\* an empty in-channel track that placed no net and stops: it never opens
\* a second track that stays empty.
EmptySweepStopsRoute ==
  Cardinality({k \in 1..Len(tracks) : tracks[k] = <<>>}) <= 1

(***************************************************************************)
(*                  P A T H   F I N D E R   P R O P E R T I E S            *)
(***************************************************************************)

\* The number of vertices that hold MOS m on side s (1: PMOS, 2: NMOS).
VerticesWith(s, m) == Cardinality({k \in 1..Len(vertices_) : vertices_[k][s] = m})

\* C18: when GroupVertices_ has returned, every PMOS and every NMOS of the
\* circuit is in exactly one vertex, and every vertex holds a PMOS and an
\* NMOS with the same gate net.
PerfectPairing ==
  pfPc \in {"grouped", "paths", "done"} =>
    /\ \A m \in PMos : VerticesWith(1, m) = 1
    /\ \A m \in NMos : VerticesWith(2, m) = 1
    /\ \A k \in 1..Len(vertices_) :
         /\ vertices_[k][1] \in PMos
         /\ vertices_[k][2] \in NMos
         /\ circuit_[vertices_[k][1]].gate = circuit_[vertices_[k][2]].gate

\* A fragment of a MOS pair of the circuit, not of the two dummies.
IsReal(f) == f.vertex[1] \in PMos /\ f.vertex[2] \in NMos

\* The net is the source or the drain of both MOS.
IsSharedBy(net, a, b) ==
  /\ net \in {circuit_[a].source, circuit_[a].drain}
  /\ net \in {circuit_[b].source, circuit_[b].drain}

\* Every recorded edge between two real vertices of the path is a net of
\* the two PMOS and a net of the two NMOS.
EdgesAreShared(pth) ==
  \A i \in 1..(Len(pth) - 1) :
    (IsReal(pth[i]) /\ IsReal(pth[i + 1])) =>
      \A s \in 1..2 :
        IsSharedBy(pth[i].edge_to_next[s], pth[i].vertex[s],
                   pth[i + 1].vertex[s])

\* C19: along the path being grown, the paths found and the joined path,
\* the recorded edge_to_next of two adjacent real vertices is a source or
\* drain net of both PMOS and of both NMOS, whatever extensions and
\* rotations made the path.
RecordedEdgesAreShared ==
  /\ EdgesAreShared(path)
  /\ \A k \in 1..Len(paths) : EdgesAreShared(paths[k])
  /\ EdgesAreShared(joined)

\* How often the net is among the drain and the source of MOS m.
PinsOn(m, net) ==
  (IF circuit_[m].drain = net THEN 1 ELSE 0)
  + (IF circuit_[m].source = net THEN 1 ELSE 0)

\* How often the recorded edges to the previous and to the next fragment
\* consume the net on side s of the i-th fragment.
RecordedUse(pth, i, s, net) ==
  (IF i > 1 /\ pth[i - 1].edge_to_next[s] = net THEN 1 ELSE 0)
  + (IF i < Len(pth) /\ pth[i].edge_to_next[s] = net THEN 1 ELSE 0)

\* The same for the emitted edges between real vertices.
EmittedUse(pth, i, s, net) ==
  (IF i > 1 /\ IsReal(pth[i - 1]) /\ EmittedEdge(pth, i - 1)[s] = net
   THEN 1 ELSE 0)
  + (IF i < Len(pth) /\ IsReal(pth[i + 1]) /\ EmittedEdge(pth, i)[s] = net
     THEN 1 ELSE 0)

NetsInUse == DiffNets \cup {GateNet(g) : g \in 1..NumPairs}

NoNetOverused(pth) ==
  \A i \in 1..Len(pth) :
    IsReal(pth[i]) =>
      \A s \in 1..2, net \in NetsInUse :
        /\ RecordedUse(pth, i, s, net) <= PinsOn(pth[i].vertex[s], net)
        /\ EmittedUse(pth, i, s, net) <= PinsOn(pth[i].vertex[s], net)

\* C20: on no MOS of a path do the two incident edges, recorded or emitted,
\* consume a net more often than the net is among the drain and the source
\* of the MOS.
NoNetConsumedTwice ==
  /\ NoNetOverused(path)
  /\ \A k \in 1..Len(paths) : NoNetOverused(paths[k])
  /\ NoNetOverused(joined)

\* C21: every call of Route() on one Router returns the Result the first
\* call returned.
SameResultEveryCall ==
  \A i \in 1..Len(rtResults) : rtResults[i] = rtResults[1]

\* The gate nets of the circuit.
GatesOf == {circuit_[m].gate : m \in DOMAIN circuit_}

\* A gate net of the circuit with more PMOS than NMOS or the other way
\* round, a gate net with MOS of one type alone among them.
HasUnequalCounts ==
  \E gate \in GatesOf : Len(MosOnGate("P", gate)) # Len(MosOnGate("N", gate))

\* C22: from a circuit with unequal PMOS and NMOS counts on a gate net,
\* GroupVertices_ does not return: the run stops at the circuit or dies in
\* an assertion, and no path is found or joined.
UnequalCountsAreFatal ==
  HasUnequalCounts =>
    /\ pfPc \in {"loaded", "abort"}
    /\ paths = <<>>
    /\ joined = <<>>

\* The netlist of the scenario: N1 = {c1, c2, c3}, N2 = {c2, c4}, r = 0.5.
IsScenarioNetlist ==
  /\ fmPc # "new"
  /\ netlist.cells = <<<<1, 2, 3>>, <<2, 4>>>>
  /\ balance_factor_ = <<1, 2>>

\* The assignments with both block sizes within the balance bounds.
BalancedAssignments ==
  {tags \in [Cells -> Tags] :
     \A t \in Tags :
       LET size == Cardinality({c \in Cells : tags[c] = t})
       IN  BalanceLb <= size /\ size <= BalanceUb}

\* The least cut size among the balanced assignments.
OptimumCutSize ==
  CHOOSE k \in 0..MaxNets :
    /\ \E tags \in BalancedAssignments : CutSizeOf(tags) = k
    /\ \A tags \in BalancedAssignments : CutSizeOf(tags) >= k

\* C23: on the netlist of the scenario, whatever the initial assignment,
\* the cut size GetCutSize() reports when Partition() has returned is the
\* least cut size of a balanced assignment.
ScenarioReturnsOptimum ==
  (fmPc = "done" /\ IsScenarioNetlist) => GetCutSize = OptimumCutSize

\* The instance of the scenario: top [2,4,0,4,2], bottom [3,1,3,1,3], no
\* boundary interval on either side.
IsScenarioInstance ==
  /\ rtPc # "new"
  /\ instance_.top_net_ids = TopOf(ScenarioPins)
  /\ instance_.bottom_net_ids = BottomOf(ScenarioPins)
  /\ Len(instance_.top_boundaries) = 1
  /\ Len(instance_.bottom_boundaries) = 1

\* C24 as stated: on the instance of the scenario Route() returns two
\* tracks in the channel.
ScenarioUsesTwoTracks ==
  (rtPc = "done" /\ IsScenarioInstance) => Len(tracks) = 2

\* The tracks in the channel hold every net once, no two nets of a track
\* overlap, and a parent of a net lies on a track above it.
ChannelAssignmentIsValid ==
  /\ \A n \in 1..number_of_nets_ :
       Cardinality({<<t, k>> \in (1..Len(tracks)) \X (1..number_of_nets_) :
                      k <= Len(tracks[t]) /\ tracks[t][k].net_id = n}) = 1
  /\ \A t \in 1..Len(tracks) : \A k \in 1..(Len(tracks[t]) - 1) :
       tracks[t][k].interval[2] < tracks[t][k + 1].interval[1]
  /\ \A t, u \in 1..Len(tracks) :
       \A k \in 1..Len(tracks[t]), l \in 1..Len(tracks[u]) :
         tracks[u][l].net_id \in
             Range(vertical_constraint_graph_[tracks[t][k].net_id])
           => u < t

\* C24, amended: on the instance of the scenario Route() returns a valid
\* assignment with four tracks in the channel, one for each net, and the
\* channel density is 4.
ScenarioUsesFourTracks ==
  (rtPc = "done" /\ IsScenarioInstance) =>
    /\ Len(tracks) = 4
    /\ \A t \in 1..Len(tracks) : Len(tracks[t]) = 1
    /\ top_tracks = <<>>
    /\ bottom_tracks = <<>>
    /\ ChannelAssignmentIsValid

ScenarioRouted == rtPc = "done" /\ IsScenarioInstance /\ Len(tracks) = 4

\* The input of the scenario: the blocks b1 (10 x 20) and b2 (20 x 10)
\* under the aspect ratio constraint (0.5, 2.0), SimulateAnnealing entered.
IsFloorplanScenario ==
  /\ blocks_ = ScenarioBlocks
  /\ anPc # "idle"
  /\ constraint = [lower_bound |-> <<1, 2>>, upper_bound |-> <<2, 1>>]

\* The blocks and cuts of the expression, without the node pointers.
ExprShape ==
  [k \in 1..Len(polish_expr_) |->
     IF IsBlock(polish_expr_[k]) THEN polish_expr_[k].block
     ELSE polish_expr_[k].cut]

\* b1 b2 V (30 x 20) or b1 b2 H (20 x 30), up to the order of the blocks,
\* with area 600.
ScenarioFloorplan ==
  /\ Width * Height = 600
  /\ \/ /\ ExprShape \in {<<1, 2, kV>>, <<2, 1, kV>>}
        /\ Width = 30 /\ Height = 20
     \/ /\ ExprShape \in {<<1, 2, kH>>, <<2, 1, kH>>}
        /\ Width = 20 /\ Height = 30

\* C25: for the blocks b1 (10 x 20) and b2 (20 x 10) and the constraint
\* (0.5, 2.0) every run of the annealer comes to its end, the snapshot it
\* rebuilds the tree from has the best area, 600, and the floorplan it
\* ends with has area 600 and is b1 b2 V (30 x 20) or b1 b2 H (20 x 30) up
\* to the order of the blocks.
ScenarioReturns600 ==
  /\ [](IsFloorplanScenario /\ anPc = "rebuild" =>
         min_area = 600 /\ AreaOfSnapshot(snapshot) = min_area)
  /\ [](IsFloorplanScenario /\ anPc = "done" => ScenarioFloorplan)
  /\ IsFloorplanScenario ~> (anPc = "done" /\ ScenarioFloorplan)

\* C25, its case: the run of the scenario has ended after more than one
\* temperature, with the blocks in the other order than they were given.
ScenarioAnnealed ==
  /\ IsFloorplanScenario
  /\ anPc = "done"
  /\ temp[2] > cooling_factor[2]
  /\ ExprShape[1] = 2

(***************************************************************************)
(*                       H P W L   P R O P E R T I E S                     *)
(***************************************************************************)

\* The circuit is one inverter: one PMOS with drain OUT and source VDD and
\* one NMOS with drain OUT and source GND, three different nets, on one
\* gate net.
IsInverter ==
  /\ pfPc # "new"
  /\ DOMAIN circuit_ = {1, NumPairs + 1}
  /\ circuit_[1].gate = circuit_[NumPairs + 1].gate
  /\ circuit_[1].drain = circuit_[NumPairs + 1].drain
  /\ circuit_[1].source # circuit_[1].drain
  /\ circuit_[NumPairs + 1].source # circuit_[1].drain
  /\ circuit_[NumPairs + 1].source # circuit_[1].source

\* C26: for one inverter the path has the single vertex, the PMOS nets
\* reported for the start and for the end of the path are the two
\* different nets VDD and OUT, and the HPWL is 0.
InverterReport ==
  (pfPc = "hpwl" /\ IsInverter) =>
    /\ Len(hamilton_path) = 1
    /\ edges[1][1] # edges[Len(edges)][1]
    /\ {edges[1][1], edges[Len(edges)][1]}
         = {circuit_[1].source, circuit_[1].drain}
    /\ hpwl = [wraps |-> 0, twice |-> 0]

\* The indices of a net on the two tracks, mixed.
MixedIdx(order, net) ==
  Range(IdxIn(order, 1, net)) \cup Range(IdxIn(order, 2, net))

\* Twice unit (max(M) - min(M)) + vertical_wire - 4.5 adjust, with adjust
\* the number of the two ends, position 0 and position L - 1, that M
\* covers.
CrossingLength(order, net, vertical_wire_length) ==
  LET M == MixedIdx(order, net)
      max == CHOOSE i \in M : \A j \in M : j <= i
      min == CHOOSE i \in M : \A j \in M : i <= j
      adjust == (IF (Len(order) - 1) \in M THEN 1 ELSE 0)
                  + (IF 0 \in M THEN 1 ELSE 0)
  IN  2 * kUnitHorizontalWidth * (max - min) + vertical_wire_length
        + (kHorizontalExtension - kGateSpacing) * adjust

\* C27: every net that has an index on the P track and an index on the N
\* track adds unit (max(M) - min(M)) + vertical_wire to the HPWL, M the
\* mix of its indices, and -4.5 for each of the two ends M covers; no
\* difference of indices is negative or wraps around.
HpwlOfCrossingNets ==
  pfPc = "hpwl" =>
    \A net \in NetsOfCircuit :
      (IdxIn(net_order, 1, net) # <<>> /\ IdxIn(net_order, 2, net) # <<>>) =>
        HpwlOfNet(net_order, net, VerticalWireLength(hamilton_path))
          = [wraps |-> 0,
             twice |-> CrossingLength(net_order, net,
                                      VerticalWireLength(hamilton_path))]

(***************************************************************************)
(*                   B L O C K   S I Z E   P R O P E R T I E S             *)
(***************************************************************************)

\* C28: at every move boundary of a pass and after every revert the size
\* of block A is the number of cells tagged A and the size of block B the
\* number of cells tagged B: a move of a base cell changes each size by
\* one, also when the base cell is on more than one net.
SizesCountTheCells ==
  fmPc \in {"pass", "between", "done"} =>
    \A t \in Tags : block_size[t] = CellsIn(t)

(***************************************************************************)
(*                 T R E E   A N D   I N D E X   P R O P E R T I E S       *)
(***************************************************************************)

\* The subtree of a heap below node n, read by the left and right
\* pointers and written in postorder: the block of a leaf (the leaf of
\* block b is node b), the cut type of a cut node after its two subtrees.
\* A null child or a walk deeper than the heap gives a broken entry.
RECURSIVE Postorder(_, _, _)
Postorder(heap, n, fuel) ==
  IF n = Nil \/ fuel = 0 THEN <<[block |-> 0, cut |-> "broken"]>>
  ELSE IF heap[n].cut_ = "-" THEN <<[block |-> n, cut |-> "-"]>>
  ELSE Postorder(heap, heap[n].left, fuel - 1)
         \o Postorder(heap, heap[n].right, fuel - 1)
         \o <<[block |-> 0, cut |-> heap[n].cut_]>>

\* The tree and the node pointers the stack-based pass builds from the
\* expression as it is now.
BuiltNow == BuildTreeFromPolishExpr_(polish_expr_)

\* C29: after any sequence of Perturb and Restore the patched tree has the
\* shape, the order of the children and the cut types of the tree the
\* stack-based pass builds from the expression, the node of every slot of
\* the expression is the node of that slot in the built tree (the leaf of
\* its block, or the cut node over the same subtree), and every child
\* points back to its parent.
TreeMatchesExpression ==
  fpPc = "ready" =>
    /\ Postorder(nodes, root_, Len(polish_expr_))
         = Postorder(BuiltNow.nodes, BuiltNow.root, Len(polish_expr_))
    /\ nodes[root_].parent = Nil
    /\ \A k \in 1..Len(polish_expr_) :
         /\ Postorder(nodes, polish_expr_[k].node, Len(polish_expr_))
              = Postorder(BuiltNow.nodes, BuiltNow.expr[k].node,
                          Len(polish_expr_))
         /\ IsBlock(polish_expr_[k]) =>
              polish_expr_[k].node = polish_expr_[k].block
         /\ IsCut(polish_expr_[k]) =>
              /\ nodes[polish_expr_[k].node].cut_ = polish_expr_[k].cut
              /\ nodes[nodes[polish_expr_[k].node].left].parent
                   = polish_expr_[k].node
              /\ nodes[nodes[polish_expr_[k].node].right].parent
                   = polish_expr_[k].node

\* A block-cut swap has just moved a cut whose block was the left-most
\* leaf of its right sibling: the cut is now the left child of the node
\* that was the parent of the block.
SwappedIntoRightSibling ==
  /\ fpPc = "ready"
  /\ fpLast = "perturb"
  /\ prev_move_.kind_of_move = kBlockAndCutSwap
  /\ LET cut == At(polish_expr_, prev_move_.first).node
     IN  /\ nodes[cut].parent # Nil
         /\ nodes[nodes[cut].parent].left = cut

\* The positions of the expression that hold a cut with a block after it.
CutThenBlock ==
  {i \in 0..(Len(polish_expr_) - 2) :
     IsCut(At(polish_expr_, i)) /\ IsBlock(At(polish_expr_, i + 1))}

BalancedPrefixes(h) == {k \in 1..Len(h) : h[k].is_balanced}

\* The length of the prefix a pass with history h keeps: the shortest
\* prefix that attains the largest cumulative gain of the prefixes ending
\* on a balanced move if that gain is above 0, no move otherwise.
ChosenPrefix(h) ==
  IF NoPositiveBalancedPrefix(h) THEN 0
  ELSE CHOOSE k \in BalancedPrefixes(h) :
         /\ \A j \in BalancedPrefixes(h) : GainOfPrefix(h, j) <= GainOfPrefix(h, k)
         /\ \A j \in BalancedPrefixes(h) :
              GainOfPrefix(h, j) = GainOfPrefix(h, k) => k <= j

\* The cells moved by the first k moves of h.
MovedBy(h, k) == {h[i].cell : i \in 1..k}

\* C31: at the end of each pass the block tags are the tags of before the
\* pass with exactly the moves of the chosen prefix of the history applied
\* (the shortest prefix of the largest cumulative gain among those ending
\* on a balanced move, and only with a gain above 0), all cells are
\* unlocked, and the cut size computed from the tags, which is what the
\* next pass computes at its start, is the cut size of before the pass
\* minus the cumulative gain of that prefix.
PassKeepsChosenPrefix ==
  [][/\ (fmPc = "pass" /\ fmPc' # "pass") =>
          LET k == ChosenPrefix(history_)
          IN  /\ \A c \in Cells :
                   cell_arr_'[c].block_tag =
                     IF c \in MovedBy(history_, k)
                     THEN Other(fmTagsBefore[c]) ELSE fmTagsBefore[c]
              /\ \A c \in Cells : ~cell_arr_'[c].is_locked_
              /\ CutSizeOf(TagsNow')
                   = CutSizeOf(fmTagsBefore) - GainOfPrefix(history_, k)
     /\ (fmPc # "pass" /\ fmPc' = "pass") =>
          GetCutSize' = CutSizeOf(TagsNow)]_vars

\* C31, witness: a pass has ended that kept a proper prefix of its moves
\* and took the other moves back.
PassKeptProperPrefix ==
  /\ fmPc = "between"
  /\ fmPassGain >= 0
  /\ fmPassGain < NumCells - 2
  /\ TagsNow # fmTagsBefore

\* The cells of the records of the history.
HistoryCells == {history_[i].cell : i \in 1..Len(history_)}

\* C32: within a pass every cell is chosen as the base cell exactly once
\* and stays locked from then on: the records of the history name
\* pairwise distinct cells, exactly the locked ones, the free cells are
\* the cells of the two buckets, ChooseBaseCell_ gives no cell only when
\* both buckets are empty, so the pass ends with one record per cell and
\* two empty buckets, and every pass gets there.
EveryCellMovesOnce ==
  /\ [](fmPc = "pass" =>
          /\ Cardinality(HistoryCells) = Len(history_)
          /\ \A c \in Cells : cell_arr_[c].is_locked_ <=> c \in HistoryCells
          /\ bucket_[kBlockA].size + bucket_[kBlockB].size
               = NumCells - Len(history_)
          /\ (ChooseBaseCell_(FmState) = Nil
                <=> bucket_[kBlockA].size = 0 /\ bucket_[kBlockB].size = 0))
  /\ [][(fmPc = "pass" /\ fmPc' = "pass") =>
          \A c \in Cells : cell_arr_[c].is_locked_ => cell_arr_'[c].is_locked_]_vars
  /\ [][(fmPc = "pass" /\ fmPc' # "pass") =>
          /\ Len(history_) = NumCells
          /\ HistoryCells = Cells
          /\ bucket_[kBlockA].size = 0
          /\ bucket_[kBlockB].size = 0]_vars
  /\ (fmPc = "pass" ~> (fmPc = "pass" /\ Len(history_) = NumCells))

\* C32, witness: a pass has moved every cell, also through moves that did
\* not keep the balance.
AllCellsMovedPastBalance ==
  /\ fmPc = "pass"
  /\ Len(history_) = NumCells
  /\ bucket_[kBlockA].size = 0
  /\ bucket_[kBlockB].size = 0
  /\ \E k \in 2..Len(history_) : ~history_[k].is_balanced

\* The bounds of the statement: the lower bound (0.5 - r/2) * n rounded up,
\* the upper bound (0.5 + r/2) * n rounded down.
CeilOfLowerBound ==
  -((-(NumCells * (balance_factor_[2] - balance_factor_[1])))
      \div (2 * balance_factor_[2]))

FloorOfUpperBound ==
  (NumCells * (balance_factor_[2] + balance_factor_[1]))
    \div (2 * balance_factor_[2])

\* C33: the balance test declares the partition after a move balanced
\* exactly when both block sizes after the move lie between the lower
\* bound rounded up and the upper bound rounded down.
BalanceTestRoundsInward ==
  fmPc = "pass" =>
    \A from \in Tags :
      IsBalancedAfterMoving_(FmState, from, Other(from))
        <=> /\ CeilOfLowerBound <= block_size[from] - 1
            /\ block_size[from] - 1 <= FloorOfUpperBound
            /\ CeilOfLowerBound <= block_size[Other(from)] + 1
            /\ block_size[Other(from)] + 1 <= FloorOfUpperBound

(***************************************************************************)
(*                 E N D   O F   T H E   A N N E A L I N G                 *)
(***************************************************************************)

\* C34: the driver leaves the loop over the temperatures at the first
\* temperature at which the rejected moves are more than 0.95 of the moves
\* made at that temperature or the cooled temperature is below the
\* freezing temperature, and goes on otherwise; a temperature at which
\* every perturbation was rejected ends the annealing.
RejectionsEndAnnealing ==
  [][(anPc = "moves" /\ temp' # temp) =>
       (anPc' = "rebuild"
          <=> \/ moves > 0 /\ rejected_moves * 100 > 95 * moves
              \/ IsFrozen(temp'))]_vars

(***************************************************************************)
(*                 R O T A T I O N S   A N D   S U B P A T H S             *)
(***************************************************************************)

\* The vertices of a path.
VerticesOf(pth) == [j \in 1..Len(pth) |-> pth[j].vertex]

\* The vertices of pth with the segment from the head to the fragment
\* before the k-th reversed.
HeadReversed(pth, k) ==
  [j \in 1..Len(pth) |->
     IF j <= k - 1 THEN pth[k - j].vertex ELSE pth[j].vertex]

\* The vertices of pth with the segment from the fragment after the k-th
\* to the tail reversed.
TailReversed(pth, k) ==
  [j \in 1..Len(pth) |->
     IF j <= k THEN pth[j].vertex ELSE pth[Len(pth) + k + 1 - j].vertex]

\* The head has no prev, every other fragment has the one before it as
\* prev, and every recorded edge is shared by the two vertices it joins.
IsWellFormed(pth) ==
  /\ pth # <<>>
  /\ ~pth[1].prev
  /\ \A j \in 2..Len(pth) : pth[j].prev
  /\ EdgesAreShared(pth)

\* C35: when Rotate_ is called on a path of three or more vertices it
\* dereferences no null fragment and emits, for every vertex from the
\* third on that is a neighbour of the head, a well-formed path over the
\* same vertices with the segment from the head to the vertex before it
\* reversed (that vertex is the new head, the old head is followed by the
\* neighbour), and symmetrically for the neighbours of the tail.
RotationReversesSegment ==
  (pfPc = "paths" /\ Len(path) >= 3 /\ ~Extend_(path, to_visit).found) =>
    LET ks == IndicesWhere(path,
                LAMBDA k : k >= 3
                           /\ IsNeighbor(path[1].vertex, path[k].vertex))
        js == IndicesWhere(path,
                LAMBDA k : k <= Len(path) - 2
                           /\ IsNeighbor(path[Len(path)].vertex,
                                         path[k].vertex))
    IN  /\ ~RotateIsUndefined(path)
        /\ Len(Rotate_(path)) = Len(ks) + Len(js)
        /\ \A x \in 1..Len(ks) :
             /\ IsWellFormed(Rotate_(path)[x])
             /\ VerticesOf(Rotate_(path)[x]) = HeadReversed(path, ks[x])
        /\ \A x \in 1..Len(js) :
             /\ IsWellFormed(Rotate_(path)[Len(ks) + x])
             /\ VerticesOf(Rotate_(path)[Len(ks) + x])
                  = TailReversed(path, js[x])

\* How often the vertex is on the paths found.
TimesOnPaths(v) ==
  Cardinality({kj \in {<<k, j>> : k \in 1..Len(paths), j \in 1..NumPairs} :
                 /\ kj[2] <= Len(paths[kj[1]])
                 /\ paths[kj[1]][kj[2]].vertex = v})

\* C36: when FindHamiltonPaths_ returns, every vertex of the graph is on
\* exactly one of the subpaths, exactly once, and consecutive vertices of a
\* subpath are neighbours in the graph.
SubpathsPartitionVertices ==
  (pfPc = "paths" /\ path = <<>> /\ to_visit = {}) =>
    /\ \A v \in Range(vertices_) : TimesOnPaths(v) = 1
    /\ \A k \in 1..Len(paths) :
         /\ \A j \in 1..Len(paths[k]) : paths[k][j].vertex \in Range(vertices_)
         /\ \A j \in 1..(Len(paths[k]) - 1) :
              IsNeighbor(paths[k][j].vertex, paths[k][j + 1].vertex)

\* The vertices of the subpaths from the i-th on, in order, with two dummy
\* vertices before every subpath.
RECURSIVE DummiesAndVertices(_, _)
DummiesAndVertices(ps, i) ==
  IF i > Len(ps) THEN <<>>
  ELSE <<<<kDummyP, kDummyN>>, <<kDummyP, kDummyN>>>>
         \o VerticesOf(ps[i]) \o DummiesAndVertices(ps, i + 1)

\* The edge that joins the real i-th fragment of pth to a dummy uses, on
\* both sides, a pin of the MOS that no other recorded connection of the
\* fragment uses: the MOS has at least as many source and drain pins on
\* the net as the edges before and behind the fragment consume.
AttachedToFreePin(pth, i, edge) ==
  \A s \in 1..2 :
    /\ PinsOn(pth[i].vertex[s], edge[s]) >= 1
    /\ PinsOn(pth[i].vertex[s], edge[s]) >= RecordedUse(pth, i, s, edge[s])

\* C37: two or more subpaths are joined into the path of their vertices in
\* order with exactly two dummy vertices between consecutive subpaths;
\* the edge from a real tail to its dummy and the edge from a dummy to the
\* real head behind it are nets free on that end (one is always there, and
\* a subpath of one vertex gives different pins to its two dummies), the
\* two dummies are linked by the Dummy net, and every fragment but the
\* head has the fragment before it as prev.
JoinedWithDummies ==
  /\ ~(pfPc = "abort" /\ path = <<>> /\ Len(paths) >= 2)
  /\ (pfPc = "done" /\ Len(paths) >= 2) =>
       /\ VerticesOf(joined)
            = VerticesOf(paths[1]) \o DummiesAndVertices(paths, 2)
       /\ ~joined[1].prev
       /\ \A i \in 2..Len(joined) : joined[i].prev
       /\ \A i \in 1..(Len(joined) - 1) :
            /\ (IsReal(joined[i]) /\ ~IsReal(joined[i + 1])) =>
                 AttachedToFreePin(joined, i, joined[i].edge_to_next)
            /\ (~IsReal(joined[i]) /\ IsReal(joined[i + 1])) =>
                 AttachedToFreePin(joined, i + 1, joined[i].edge_to_next)
            /\ (~IsReal(joined[i]) /\ ~IsReal(joined[i + 1])) =>
                 joined[i].edge_to_next = <<kDummyNet, kDummyNet>>

\* A join of three or more subpaths with a subpath of one vertex in the
\* middle, whose MOS have the drain and the source on different nets.
MiddleSubpathOfOneVertexJoined ==
  /\ pfPc = "done"
  /\ Len(paths) >= 3
  /\ \E k \in 2..(Len(paths) - 1) :
       /\ Len(paths[k]) = 1
       /\ \A s \in 1..2 :
            circuit_[paths[k][1].vertex[s]].drain
              # circuit_[paths[k][1].vertex[s]].source

\* The first net in the order of the horizontal constraint graph that is
\* not routed and whose parents in the vertical constraint graph are all
\* routed; 0 if there is none.
FirstReadyNet ==
  LET hcg == horizontal_constraint_graph_
      Ready(k) == /\ ~routed_nets_[hcg[k].net_id]
                  /\ AllParentsRouted(vertical_constraint_graph_,
                                      routed_nets_, hcg[k].net_id)
  IN  IF \E k \in 1..Len(hcg) : Ready(k)
      THEN hcg[CHOOSE k \in 1..Len(hcg) :
                 Ready(k) /\ \A j \in 1..(k - 1) : ~Ready(j)].net_id
      ELSE 0

\* C38: on an instance with an acyclic vertical constraint graph every
\* in-channel track that RouteInTracks_ opens receives a net, the first
\* of them the first unrouted net in the order of the horizontal
\* constraint graph whose parents are all routed; so there are never more
\* in-channel tracks than nets, the assertion on their number never fails,
\* and the loop ends with all nets routed.
OpenedTracksReceiveANet ==
  /\ [](VcgAcyclic =>
          /\ rtPc # "abort"
          /\ ~rtEmptySweep
          /\ Len(tracks) <= number_of_nets_
          /\ \A d \in 1..Len(tracks) : tracks[d] # <<>>)
  /\ [][(VcgAcyclic /\ rtPc = "tracks" /\ Len(tracks') = Len(tracks) + 1) =>
          /\ FirstReadyNet # 0
          /\ tracks'[Len(tracks')] # <<>>
          /\ tracks'[Len(tracks')][1].net_id = FirstReadyNet]_vars
  /\ (VcgAcyclic /\ rtPc = "tracks") ~>
       (rtPc = "done" /\ number_of_routed_nets_ = number_of_nets_
          /\ \A n \in NetIds : routed_nets_[n])

\* C38, its case: Route() has returned with as many in-channel tracks as
\* there are nets, three or more, under a vertical constraint.
OneTrackPerNet ==
  /\ rtPc = "done"
  /\ VcgAcyclic
  /\ number_of_nets_ >= 3
  /\ Len(tracks) = number_of_nets_
  /\ \E u, v \in NetIds : VcgEdge(u, v)

\* The cells of net n an assignment of block tags puts into block A and
\* into block B.
DistributionUnder(tags, n) ==
  <<Cardinality({k \in 1..Len(CellsOf(n)) : tags[CellsOf(n)[k]] = kBlockA}),
    Cardinality({k \in 1..Len(CellsOf(n)) : tags[CellsOf(n)[k]] = kBlockB})>>

\* C39: when Partition() has returned, GetCutSize(), which reads the net
\* distributions the last pass left behind, is the number of nets with a
\* cell tagged A and a cell tagged B under the final block tags.
CutSizeIsOfFinalTags ==
  fmPc = "done" => GetCutSize = CutSizeOf(TagsNow)

\* C39, its case: Partition() has returned after two passes or more with
\* a net cut and a net uncut, and the distribution of some net is not
\* the one of the final tags.
ReturnedWithStaleDistribution ==
  /\ fmPc = "done"
  /\ fmPasses >= 2
  /\ 0 < GetCutSize /\ GetCutSize < Cardinality(Nets)
  /\ \E n \in Nets :
       <<distribution[n][1], distribution[n][2]>> # DistributionUnder(TagsNow, n)

\* The leaves of the tree under the root.
RECURSIVE LeavesUnder(_, _, _)
LeavesUnder(heap, n, fuel) ==
  IF n = Nil \/ fuel = 0 THEN {}
  ELSE IF heap[n].cut_ = "-" THEN {n}
  ELSE LeavesUnder(heap, heap[n].left, fuel - 1)
         \cup LeavesUnder(heap, heap[n].right, fuel - 1)

\* The rectangle of a leaf: <<x, y, x + w, y + h>>, the size the one of
\* its block.
RectOf(b) ==
  <<bottom_left[b][1], bottom_left[b][2],
    bottom_left[b][1] + blocks_[b].width,
    bottom_left[b][2] + blocks_[b].height>>

\* Two rectangles share a point of their interiors.
Overlap(ra, rb) ==
  /\ ra[1] < rb[3] /\ rb[1] < ra[3]
  /\ ra[2] < rb[4] /\ rb[2] < ra[4]

\* C40: after the walk from the origin (0, 0) every block is a leaf with
\* its rectangle inside [0, W] x [0, H], W and H the width and the height
\* of the root, no two rectangles overlap in their interiors, and the
\* right child of a cut starts at the top (H) or at the right edge (V) of
\* the bounding box of the left subtree, which starts where the cut does.
BlocksPlacedApart ==
  fpLast = "place" =>
    /\ LeavesUnder(nodes, root_, 2 * NumBlocks) = DOMAIN blocks_
    /\ \A b \in DOMAIN blocks_ :
         /\ 0 <= RectOf(b)[1] /\ RectOf(b)[3] <= nodes[root_].width
         /\ 0 <= RectOf(b)[2] /\ RectOf(b)[4] <= nodes[root_].height
    /\ \A a, b \in DOMAIN blocks_ : a # b => ~Overlap(RectOf(a), RectOf(b))
    /\ bottom_left[root_] = <<0, 0>>
    /\ \A n \in NodeIds :
         nodes[n].cut_ # "-" =>
           /\ bottom_left[nodes[n].left] = bottom_left[n]
           /\ bottom_left[nodes[n].right] =
                IF nodes[n].cut_ = kH
                THEN <<bottom_left[n][1],
                       bottom_left[n][2] + nodes[nodes[n].left].height>>
                ELSE <<bottom_left[n][1] + nodes[nodes[n].left].width,
                       bottom_left[n][2]>>

\* C40, its case: the blocks are placed by a walk over a perturbed tree
\* with both kinds of cut, and a block lies away from both axes.
PlacedAwayFromTheAxes ==
  /\ fpLast = "place"
  /\ \E n, m \in NodeIds : nodes[n].cut_ = kH /\ nodes[m].cut_ = kV
  /\ \E b \in DOMAIN blocks_ : bottom_left[b][1] > 0 /\ bottom_left[b][2] > 0
  /\ fpBefore.expr # <<>>
  /\ fpBefore.expr # polish_expr_

====
